---- MODULE Spec2Model ----
(***************************************************************************)
(* The checkpoint subsystem of the IPC agent (src/src/manager/checkpoint.rs) *)
(* as a state machine: CheckpointSubsystem::run, the task that drives the  *)
(* manage_subnet futures of one config snapshot, and manage_subnet itself, *)
(* one step per await point.                                               *)
(***************************************************************************)
EXTENDS Integers, Sequences, FiniteSets, TLC

\* ------------------------------------------------------------------ bounds
\* Number of config events the reloader publishes in one behaviour.
MaxPublish == 1
\* Longest SubnetID route (number of segments after the root) in a snapshot.
MaxDepth == 2
\* Largest number of entries of a snapshot given to subnets_to_manage.
MaxSubnets == 3
\* Number of times a chain head advances between two polls in one behaviour.
MaxPolls == 7
\* Number of blocks a chain produces between two polls of its head.
BlocksPerPoll == 5
\* Largest applied_topdown_nonce of the child's gateway.
MaxApplied == 7
\* Largest number of top-down messages the parent returns to one request.
MaxMsgs == 3
\* Byte patterns of the EVM addresses tried, beside the ones of the tests.
MaxStride == 2
\* Bytes a delegated subaddress may have beyond the length of an EVM address.
MaxExtra == 2
\* Longest path of a SubnetID handed to the EVM backend.
MaxRoute == 2
\* Bytes a subnet name may have beyond SUBNET_NAME_MAX_LEN.
MaxOver == 2
\* Most logs in a transaction receipt.
MaxLogs == 2
\* Longest children list of a checkpoint template.
MaxChildren == 2
\* Longest cross_msgs list of a checkpoint template.
MaxCross == 2

\* ------------------------------------------------------------- data model
Segs == {"a", "b"}
Accounts == {"x", "y"}
AccountLists == {<<>>, <<"x">>, <<"x", "y">>}

\* A SubnetID is its route below the root; the root itself is <<>>.
SubnetIDs == UNION {[1..n -> Segs] : n \in 0..MaxDepth}
ROOT == <<>>

\* SubnetID::parent(): None for the root, else the route without its last segment.
HasParent(id) == Len(id) > 0
Parent(id) == SubSeq(id, 1, Len(id) - 1)

\* A config entry; only the fields the subsystem reads.
Subnet(id, accounts) == [id |-> id, accounts |-> accounts]

\* The key sets of the snapshots (HashMap<SubnetID, Subnet>, keyed by the entry's
\* id) with at most MaxSubnets entries, and every snapshot on a key set.
SnapshotKeys == {X \in SUBSET SubnetIDs : Cardinality(X) <= MaxSubnets}
SnapshotsOn(D) == {[k \in D |-> Subnet(k, al[k])] : al \in [D -> AccountLists]}

\* HashMap::values(): the entries in the map's (arbitrary but fixed) order.
RECURSIVE KeySeq(_)
KeySeq(S) ==
  IF S = {} THEN <<>>
  ELSE LET k == CHOOSE x \in S : TRUE IN <<k>> \o KeySeq(S \ {k})

Values(m) == LET ks == KeySeq(DOMAIN m) IN [i \in 1..Len(ks) |-> m[ks[i]]]

\* Mutant of subnets_to_manage: the accounts filter is dropped.
subnets_to_manage_no_accounts_filter(subnets_by_id) ==
  LET HasParentInMap(s) == HasParent(s.id) /\ Parent(s.id) \in DOMAIN subnets_by_id
      kept == SelectSeq(Values(subnets_by_id), HasParentInMap)
  IN [i \in 1..Len(kept) |-> <<kept[i], subnets_by_id[Parent(kept[i].id)]>>]

\* subnets_to_manage: values().filter(accounts nonempty).filter(parent in map)
\*                    .map(|s| (s, map[parent])).collect()
subnets_to_manage(subnets_by_id) ==
  LET NonEmpty(s) == s.accounts # <<>>
      HasParentInMap(s) == HasParent(s.id) /\ Parent(s.id) \in DOMAIN subnets_by_id
      kept == SelectSeq(SelectSeq(Values(subnets_by_id), NonEmpty), HasParentInMap)
  IN [i \in 1..Len(kept) |-> <<kept[i], subnets_by_id[Parent(kept[i].id)]>>]

\* ------------------------------------------------ snapshots of the run model
\* A snapshot from a set of entries, keyed by id.
Snap(E) == [k \in {e.id : e \in E} |-> CHOOSE e \in E : e.id = k]

\* The snapshots the reloader publishes: one, two and no manageable pair.
Configs ==
  << Snap({Subnet(ROOT, <<"x">>), Subnet(<<"a">>, <<"x", "y">>)}),
     Snap({Subnet(ROOT, <<"x">>), Subnet(<<"a">>, <<"x", "y">>), Subnet(<<"b">>, <<"x">>)}),
     Snap({Subnet(ROOT, <<"x">>), Subnet(<<"a">>, <<>>), Subnet(<<"b", "a">>, <<"x">>)}) >>

\* Number of CIDs a chain head can carry.
CidCounts == {0, 1, 2}
\* ChainHead responses. ok = FALSE stands for every way the statement ends in `?`:
\* the call fails or a conversion of its result (Cid::try_from, ChainEpoch::try_from,
\* Address::from_str, cid()) fails. The same holds for the other calls' `ok`.
HeadResponses ==
  {[ok |-> FALSE, cids |-> 0]} \cup {[ok |-> TRUE, cids |-> n] : n \in CidCounts}
NoHead == [cids |-> 0]

VARIABLES
  latest,            \* ReloadableConfig: index in Configs of the current snapshot
  chan,              \* config_chan: number of events not yet received
  chanFailed,        \* config_chan: recv will return Err once drained
  subscribed,        \* config_chan exists (new_subscriber was called)
  published,         \* number of config events published so far
  shutdownRequested, \* subsys.on_shutdown_requested() is ready
  runPc,             \* position of CheckpointSubsystem::run
  is_shutdown,       \* run's local is_shutdown
  runResult,         \* what run returned: "none", "ok", "err"
  tasks,             \* the manage_subnets_task of every loop iteration of run
  probe_in,          \* input of a direct call of subnets_to_manage
  probe_out,         \* its result
  probe_done,        \* the call was made
  loop,              \* a manage_subnet future polled on its own: position and locals
  chain,             \* what the chains of its pair hold (heights, checkpoints, votes)
  hist,              \* what that future has submitted so far
  td,                \* a manage_topdown_checkpoints / submit_topdown_checkpoint future
  tdchain,           \* what the chains of its pair hold
  evm,               \* a call on the EVM backend: operation, argument, position, result
  sc,                \* a submit_checkpoint call: arguments, locals, position, parent pool
  lotus              \* a call on the native subnet manager: operation, position, result

vars == <<latest, chan, chanFailed, subscribed, published, shutdownRequested,
          runPc, is_shutdown, runResult, tasks, probe_in, probe_out, probe_done,
          loop, chain, hist, td, tdchain, evm, sc, lotus>>
loopVars == <<loop, chain, hist>>
tdVars == <<td, tdchain>>
auxVars == <<loopVars, tdVars, evm, sc, lotus>>
runVars == <<latest, chan, chanFailed, subscribed, published, shutdownRequested,
             runPc, is_shutdown, runResult, tasks>>
probeVars == <<probe_in, probe_out, probe_done>>

\* ------------------------------------------------------------ manage_subnet
ActivePcs == {"init_head", "init_state", "child_head", "get_ckpt", "parent_head",
              "sa_state", "tmpl", "prev", "push", "waitmsg", "wait"}
SubmitPcs == {"tmpl", "prev", "push", "waitmsg"}

\* The future manage_subnet((child, parent), stop_notify) before its first poll.
NewSup(pair) ==
  [child |-> pair[1], parent |-> pair[2], pc |-> "init_head",
   child_head |-> NoHead, vset |-> {}, idx |-> 0, notified |-> FALSE]

\* `?` inside the try block: manage_subnet returns Err.
Failed(s) == [s EXCEPT !.pc = "err", !.child_head = NoHead, !.vset = {}, !.idx = 0,
                       !.notified = FALSE]
\* return Ok(())
Returned(s) == [s EXCEPT !.pc = "ok", !.child_head = NoHead, !.vset = {}, !.idx = 0,
                         !.notified = FALSE]
\* unwrap() on None / assert_eq! failure: the poll of the future panics.
Panicked(s) == [s EXCEPT !.pc = "panic"]

\* Mutant of NextAccount: child.accounts walked from its last entry to its first.
NextAccountReversed(s, vset, from) ==
  LET C == {j \in 1..Len(s.child.accounts) :
              s.child.accounts[j] \in vset /\ (from = 0 \/ j < from)}
  IN IF C = {} THEN 0 ELSE CHOOSE j \in C : \A k \in C : j >= k

\* Mutant of NextAccount: every account of child.accounts, validator or not.
NextAccountAny(s, vset, from) ==
  IF from < Len(s.child.accounts) THEN from + 1 ELSE 0

\* The next account of child.accounts after position `from` that is in the
\* validator set; 0 when the for loop is over.
NextAccount(s, vset, from) ==
  LET C == {j \in (from + 1)..Len(s.child.accounts) : s.child.accounts[j] \in vset}
  IN IF C = {} THEN 0 ELSE CHOOSE j \in C : \A k \in C : j <= k

\* Enter wait_next_iteration: the select! creates stop_notify.notified().
ToWait(s) == [s EXCEPT !.pc = "wait", !.child_head = NoHead, !.vset = {}, !.idx = 0,
                       !.notified = FALSE]

\* The for loop over child.accounts from position `from`: the next submission
\* starts (submit_checkpoint is called), or the loop ends and the supervisor waits.
AccountLoop(s, vset, from) ==
  LET j == NextAccount(s, vset, from)
  IN IF j = 0 THEN ToWait(s)
     ELSE [s EXCEPT !.pc = "tmpl", !.vset = vset, !.idx = j, !.child_head = NoHead]

\* line 151-153: parent_client.chain_head().await?, first().unwrap(), Cid::try_from?
init_head(s, r) ==
  IF ~r.ok THEN Failed(s)
  ELSE IF r.cids = 0 THEN Panicked(s)
  ELSE [s EXCEPT !.pc = "init_state"]

\* line 157-164: ipc_read_subnet_actor_state(...).await?
init_state(s, ok) == IF ok THEN [s EXCEPT !.pc = "child_head"] ELSE Failed(s)

\* line 173-176: child_client.chain_head().await?, ChainEpoch::try_from?
child_head(s, r) ==
  IF ~r.ok THEN Failed(s)
  ELSE [s EXCEPT !.pc = "get_ckpt", !.child_head = [cids |-> r.cids]]

\* line 181-193: ipc_get_checkpoint(...).await.is_ok() => wait, else go on
get_checkpoint(s, is_ok) ==
  IF is_ok THEN ToWait(s) ELSE [s EXCEPT !.pc = "parent_head"]

\* line 205-211: chain_head().await?, assert_eq!(cids.len(), 1), Cid::try_from?
parent_head(s, r) ==
  IF ~r.ok THEN Failed(s)
  ELSE IF r.cids # 1 THEN Panicked(s)
  ELSE [s EXCEPT !.pc = "sa_state"]

\* line 213-250: ipc_read_subnet_actor_state(...).await?, the validator set,
\* assert_eq!(child_head.cids.len(), 1), Cid::try_from?, then the account loop.
actor_state(s, ok, vset) ==
  IF ~ok THEN Failed(s)
  ELSE IF s.child_head.cids # 1 THEN Panicked(s)
  ELSE AccountLoop(s, vset, 0)

\* submit_checkpoint line 292-301: ipc_get_checkpoint_template(epoch).await?
submit_template(s, ok) == IF ok THEN [s EXCEPT !.pc = "prev"] ELSE Failed(s)

\* submit_checkpoint line 311-342: ipc_get_prev_checkpoint_for_child(...).await?,
\* Cid::try_from?, cbor::serialize?
submit_prev(s, ok) == IF ok THEN [s EXCEPT !.pc = "push"] ELSE Failed(s)

\* submit_checkpoint line 343-355: mpool_push_message(message).await?, cid()?
submit_push(s, ok) == IF ok THEN [s EXCEPT !.pc = "waitmsg"] ELSE Failed(s)

\* submit_checkpoint line 358-361 and manage_subnet line 248-250:
\* state_wait_msg(message_cid).await?, then the next account of the for loop.
submit_wait(s, ok) == IF ok THEN AccountLoop(s, s.vset, s.idx) ELSE Failed(s)

\* wait_next_iteration: true when the sleep fires, false when notified.
wait_next_iteration(s, timer_first) ==
  IF timer_first THEN [s EXCEPT !.pc = "child_head", !.notified = FALSE]
  ELSE Returned(s)

\* ------------------------------------------------------ manage_subnets_task
\* Mutant of manage_subnets_task: an Err of one future ends the driving loop.
manage_subnets_task_break_on_err(t, i, r) ==
  IF r.pc = "panic" THEN [t EXCEPT !.status = "panicked", !.sups = <<>>]
  ELSE IF r.pc = "err" THEN [t EXCEPT !.status = "finished", !.sups = <<>>]
  ELSE [t EXCEPT !.sups[i] = r]

\* The spawned task polls future i of its FuturesUnordered, which moves to r.
\* Some(Ok(())) and Some(Err(e)) (logged) leave the other futures in the set; a
\* panic of the poll unwinds the task and drops every future of the set.
manage_subnets_task(t, i, r) ==
  IF r.pc = "panic" THEN [t EXCEPT !.status = "panicked", !.sups = <<>>]
  ELSE [t EXCEPT !.sups[i] = r]

Running(g) == g \in 1..Len(tasks) /\ tasks[g].status = "running"
At(g, i, pc) == Running(g) /\ i \in 1..Len(tasks[g].sups) /\ tasks[g].sups[i].pc = pc
Poll(g, i, r) ==
  /\ tasks' = [tasks EXCEPT ![g] = manage_subnets_task(@, i, r)]
  /\ UNCHANGED <<latest, chan, chanFailed, subscribed, published, shutdownRequested,
                 runPc, is_shutdown, runResult, probe_in, probe_out, probe_done, auxVars>>

SupInitHead(g, i) ==
  /\ At(g, i, "init_head")
  /\ \E r \in HeadResponses : Poll(g, i, init_head(tasks[g].sups[i], r))

SupInitState(g, i) ==
  /\ At(g, i, "init_state")
  /\ \E ok \in BOOLEAN : Poll(g, i, init_state(tasks[g].sups[i], ok))

SupChildHead(g, i) ==
  /\ At(g, i, "child_head")
  /\ \E r \in HeadResponses : Poll(g, i, child_head(tasks[g].sups[i], r))

SupGetCheckpoint(g, i) ==
  /\ At(g, i, "get_ckpt")
  /\ \E is_ok \in BOOLEAN : Poll(g, i, get_checkpoint(tasks[g].sups[i], is_ok))

SupParentHead(g, i) ==
  /\ At(g, i, "parent_head")
  /\ \E r \in HeadResponses : Poll(g, i, parent_head(tasks[g].sups[i], r))

SupActorState(g, i) ==
  /\ At(g, i, "sa_state")
  /\ \E ok \in BOOLEAN, vset \in SUBSET Accounts :
        Poll(g, i, actor_state(tasks[g].sups[i], ok, vset))

SubmitTemplate(g, i) ==
  /\ At(g, i, "tmpl")
  /\ \E ok \in BOOLEAN : Poll(g, i, submit_template(tasks[g].sups[i], ok))

SubmitPrev(g, i) ==
  /\ At(g, i, "prev")
  /\ \E ok \in BOOLEAN : Poll(g, i, submit_prev(tasks[g].sups[i], ok))

SubmitPush(g, i) ==
  /\ At(g, i, "push")
  /\ \E ok \in BOOLEAN : Poll(g, i, submit_push(tasks[g].sups[i], ok))

SubmitWait(g, i) ==
  /\ At(g, i, "waitmsg")
  /\ \E ok \in BOOLEAN : Poll(g, i, submit_wait(tasks[g].sups[i], ok))

\* select! in wait_next_iteration: the sleep branch completes.
WaitTimer(g, i) ==
  /\ At(g, i, "wait")
  /\ Poll(g, i, wait_next_iteration(tasks[g].sups[i], TRUE))

\* select! in wait_next_iteration: the notified() branch completes.
WaitStop(g, i) ==
  /\ At(g, i, "wait")
  /\ tasks[g].sups[i].notified
  /\ Poll(g, i, wait_next_iteration(tasks[g].sups[i], FALSE))

\* manage_subnet_futures.next() returns None: the task ends.
DriverFinish(g) ==
  /\ Running(g)
  /\ \A i \in 1..Len(tasks[g].sups) : tasks[g].sups[i].pc \in {"ok", "err"}
  /\ tasks' = [tasks EXCEPT ![g] = [@ EXCEPT !.status = "finished", !.sups = <<>>]]
  /\ UNCHANGED <<latest, chan, chanFailed, subscribed, published, shutdownRequested,
                 runPc, is_shutdown, runResult, probe_in, probe_out, probe_done, auxVars>>

SupStep(g, i) ==
  \/ SupInitHead(g, i) \/ SupInitState(g, i) \/ SupChildHead(g, i)
  \/ SupGetCheckpoint(g, i) \/ SupParentHead(g, i) \/ SupActorState(g, i)
  \/ SubmitTemplate(g, i) \/ SubmitPrev(g, i) \/ SubmitPush(g, i) \/ SubmitWait(g, i)
  \/ WaitTimer(g, i) \/ WaitStop(g, i)

\* ------------------------------------------------- CheckpointSubsystem::run
\* Mutant of spawn_futures: the first pair gets no future.
spawn_futures_skip_first(pairs) ==
  [i \in 1..(IF Len(pairs) = 0 THEN 0 ELSE Len(pairs) - 1) |-> NewSup(pairs[i + 1])]

\* line 66-71: one manage_subnet future per (child, parent) of subnets_to_manage.
spawn_futures(pairs) == [i \in 1..Len(pairs) |-> NewSup(pairs[i])]

\* Mutant of notify_waiters: the notification aborts every unfinished future.
notify_waiters_abort(sups) ==
  [i \in 1..Len(sups) |->
     IF sups[i].pc \in ActivePcs THEN Returned(sups[i]) ELSE sups[i]]

\* Notify::notify_waiters(): wakes the notified() futures that exist at the call,
\* which are those of the supervisors inside wait_next_iteration; no permit is
\* stored for the others.
notify_waiters(sups) ==
  [i \in 1..Len(sups) |->
     IF sups[i].pc = "wait" THEN [sups[i] EXCEPT !.notified = TRUE] ELSE sups[i]]

\* Mutant of task_joined: run goes on without awaiting the task.
task_joined_no_await(t) == TRUE

\* manage_subnets_task.await is ready: the task completed or panicked.
task_joined(t) == t.status # "running"

Cur == Len(tasks)

\* line 58: self.config.new_subscriber()
RunSubscribe ==
  /\ runPc = "start"
  /\ subscribed' = TRUE
  /\ runPc' = "load"
  /\ UNCHANGED <<latest, chan, chanFailed, published, shutdownRequested,
                 is_shutdown, runResult, tasks, probe_in, probe_out, probe_done, auxVars>>

\* line 62-89: get_config(), build the futures, spawn the task driving them.
RunApply ==
  /\ runPc = "load"
  /\ LET futs == spawn_futures(subnets_to_manage(Configs[latest]))
     IN tasks' = Append(tasks, [cfg |-> latest, nspawned |-> Len(futs),
                                status |-> "running", stop_issued |-> FALSE,
                                sups |-> futs])
  /\ runPc' = "select"
  /\ UNCHANGED <<latest, chan, chanFailed, subscribed, published, shutdownRequested,
                 is_shutdown, runResult, probe_in, probe_out, probe_done, auxVars>>

\* line 110-112: stop_subnet_managers.notify_waiters(), then await the task.
StopManagers ==
  tasks' = [tasks EXCEPT ![Cur] =
              [@ EXCEPT !.stop_issued = TRUE, !.sups = notify_waiters(@)]]

\* line 93-96: the shutdown arm of the select!.
RunSelectShutdown ==
  /\ runPc = "select"
  /\ shutdownRequested
  /\ is_shutdown' = TRUE
  /\ StopManagers
  /\ runPc' = "join"
  /\ UNCHANGED <<latest, chan, chanFailed, subscribed, published, shutdownRequested,
                 runResult, probe_in, probe_out, probe_done, auxVars>>

\* line 97-106: the config_chan.recv() arm of the select!, Ok or Err.
RunSelectRecv ==
  /\ runPc = "select"
  /\ \/ /\ chan > 0
        /\ chan' = chan - 1
        /\ is_shutdown' = FALSE
     \/ /\ chan = 0
        /\ chanFailed
        /\ chan' = chan
        /\ is_shutdown' = TRUE
  /\ StopManagers
  /\ runPc' = "join"
  /\ UNCHANGED <<latest, chanFailed, subscribed, published, shutdownRequested,
                 runResult, probe_in, probe_out, probe_done, auxVars>>

\* line 112-116: manage_subnets_task.await?; return when is_shutdown, else loop.
RunJoin ==
  /\ runPc = "join"
  /\ task_joined(tasks[Cur])
  /\ IF tasks[Cur].status = "panicked"
       THEN runPc' = "returned" /\ runResult' = "err"
       ELSE IF is_shutdown
         THEN runPc' = "returned" /\ runResult' = "ok"
         ELSE runPc' = "load" /\ runResult' = runResult
  /\ UNCHANGED <<latest, chan, chanFailed, subscribed, published, shutdownRequested,
                 is_shutdown, tasks, probe_in, probe_out, probe_done, auxVars>>

RunStep == RunSubscribe \/ RunApply \/ RunSelectShutdown \/ RunSelectRecv \/ RunJoin

\* ------------------------------------------------------------- environment
\* The reloader stores a new snapshot and sends one event to the subscribers.
Publish(c) ==
  /\ published < MaxPublish
  /\ ~chanFailed
  /\ latest' = c
  /\ published' = published + 1
  /\ chan' = IF subscribed THEN chan + 1 ELSE chan
  /\ UNCHANGED <<chanFailed, subscribed, shutdownRequested, runPc, is_shutdown,
                 runResult, tasks, probe_in, probe_out, probe_done, auxVars>>

\* The config channel breaks: recv returns Err once the sent events are received.
ChannelFail ==
  /\ subscribed
  /\ ~chanFailed
  /\ chanFailed' = TRUE
  /\ UNCHANGED <<latest, chan, subscribed, published, shutdownRequested, runPc,
                 is_shutdown, runResult, tasks, probe_in, probe_out, probe_done, auxVars>>

\* The outer process requests the shutdown of the subsystem.
RequestShutdown ==
  /\ ~shutdownRequested
  /\ shutdownRequested' = TRUE
  /\ UNCHANGED <<latest, chan, chanFailed, subscribed, published, runPc,
                 is_shutdown, runResult, tasks, probe_in, probe_out, probe_done, auxVars>>

\* ------------------------------------------- manage_subnet with its two chains
\* The pair of the future polled on its own: child /a (accounts x, y), parent root.
ThePair == subnets_to_manage(Configs[1])[1]

\* The heights a chain head is seen at, and the checkpoint periods of the chains.
Heights == {BlocksPerPoll * k : k \in 0..MaxPolls}
Periods == {10, 15}
\* Value of an epoch local that holds nothing.
NoEpoch == 0 - 1

\* ipc_gateway::checkpoint::checkpoint_epoch(epoch, period): (epoch / period) * period
checkpoint_epoch(epoch, period) == (epoch \div period) * period

InTickPcs == {"get_ckpt", "parent_head", "sa_state"} \cup SubmitPcs

\* The future with its locals: period (read once), curr_epoch and epoch (per tick).
NewLoop(pair) ==
  [s |-> NewSup(pair), period |-> NoEpoch, curr_epoch |-> NoEpoch, epoch |-> NoEpoch]

\* The future moves to position s2; the locals of a tick end with the tick.
loop_at(b, s2) ==
  IF s2.pc \in InTickPcs THEN [b EXCEPT !.s = s2]
  ELSE [b EXCEPT !.s = s2, !.curr_epoch = NoEpoch, !.epoch = NoEpoch]

\* line 157-164: period = state.check_period
loop_init_state(b, ok, check_period) ==
  [b EXCEPT !.s = init_state(@, ok), !.period = IF ok THEN check_period ELSE @]

\* Mutant of loop_child_head: the epoch of the window that is still open.
loop_child_head_open_window(b, r, c) ==
  IF ~r.ok THEN loop_at(b, child_head(b.s, r))
  ELSE [b EXCEPT !.s = child_head(@, r), !.curr_epoch = c.height,
                 !.epoch = checkpoint_epoch(c.height, b.period) + b.period]

\* Mutant of loop_child_head: the highest multiple of the period not yet committed.
loop_child_head_uncommitted(b, r, c) ==
  LET U == {e \in 0..c.height : e % b.period = 0 /\ e \notin c.committed}
      top == IF U = {} THEN 0 ELSE CHOOSE e \in U : \A f \in U : f <= e
  IN IF ~r.ok THEN loop_at(b, child_head(b.s, r))
     ELSE [b EXCEPT !.s = child_head(@, r), !.curr_epoch = c.height, !.epoch = top]

\* line 173-176: curr_epoch = child_head.height (of the child chain c), epoch =
\* checkpoint_epoch(curr_epoch, period)
loop_child_head(b, r, c) ==
  IF ~r.ok THEN loop_at(b, child_head(b.s, r))
  ELSE [b EXCEPT !.s = child_head(@, r), !.curr_epoch = c.height,
                 !.epoch = checkpoint_epoch(c.height, b.period)]

\* submit_checkpoint line 284, 335-342: the message, from the account, for the epoch.
submit_message(b) == [from |-> b.s.child.accounts[b.s.idx], epoch |-> b.epoch]

\* ipc_get_checkpoint(child, epoch): Ok for a committed checkpoint; Err when there
\* is none or when the call fails.
GetCheckpointResponses(c, epoch) == {epoch \in c.committed, FALSE}

\* Mutant of wait_included: state_wait_msg returns without waiting.
wait_included_at_once(c, m) == TRUE

\* state_wait_msg(cid) returns Ok once the message is on the parent chain.
wait_included(c, m) == m \notin c.mpool

\* The subnet actor records the vote of a checkpoint message: the sender is a
\* validator and the epoch is a checkpoint epoch later than every committed one.
vote_accepted(c, m) ==
  /\ m.from \in c.validators
  /\ m.epoch > 0
  /\ m.epoch % c.period = 0
  /\ \A e \in c.committed : e < m.epoch

LoopAt(pc) == loop.s.pc = pc
LoopOnly == UNCHANGED <<runVars, probeVars, tdVars, evm, sc, lotus>>

\* The parent head a step received, for hist: the number of its CIDs.
HeadSeen(h, r) == [h EXCEPT !.cids = IF r.ok THEN r.cids ELSE NoEpoch]
\* The step that uses the tipset CID made from that head.
HeadUsed(h) == [h EXCEPT !.cids = NoEpoch]

LoopInitHead ==
  /\ LoopAt("init_head")
  /\ \E r \in HeadResponses :
        /\ loop' = loop_at(loop, init_head(loop.s, r))
        /\ hist' = HeadSeen(hist, r)
  /\ UNCHANGED chain
  /\ LoopOnly

LoopInitState ==
  /\ LoopAt("init_state")
  /\ \E ok \in BOOLEAN : loop' = loop_init_state(loop, ok, chain.period)
  /\ hist' = HeadUsed(hist)
  /\ UNCHANGED chain
  /\ LoopOnly

LoopChildHead ==
  /\ LoopAt("child_head")
  /\ \E r \in HeadResponses : loop' = loop_child_head(loop, r, chain)
  /\ hist' = [hist EXCEPT !.tick = {}, !.raced = FALSE, !.vread = {}]
  /\ UNCHANGED chain
  /\ LoopOnly

LoopGetCheckpoint ==
  /\ LoopAt("get_ckpt")
  /\ \E is_ok \in GetCheckpointResponses(chain, loop.epoch) :
        loop' = loop_at(loop, get_checkpoint(loop.s, is_ok))
  /\ UNCHANGED <<chain, hist>>
  /\ LoopOnly

LoopParentHead ==
  /\ LoopAt("parent_head")
  /\ \E r \in HeadResponses :
        /\ loop' = loop_at(loop, parent_head(loop.s, r))
        /\ hist' = HeadSeen(hist, r)
  /\ UNCHANGED chain
  /\ LoopOnly

LoopActorState ==
  /\ LoopAt("sa_state")
  /\ \E ok \in BOOLEAN :
        /\ loop' = loop_at(loop, actor_state(loop.s, ok, chain.validators))
        /\ hist' = IF ok THEN [HeadUsed(hist) EXCEPT !.vread = chain.validators]
                   ELSE HeadUsed(hist)
  /\ UNCHANGED chain
  /\ LoopOnly

LoopTemplate ==
  /\ LoopAt("tmpl")
  /\ \E ok \in BOOLEAN : loop' = loop_at(loop, submit_template(loop.s, ok))
  /\ UNCHANGED <<chain, hist>>
  /\ LoopOnly

LoopPrev ==
  /\ LoopAt("prev")
  /\ \E ok \in BOOLEAN : loop' = loop_at(loop, submit_prev(loop.s, ok))
  /\ UNCHANGED <<chain, hist>>
  /\ LoopOnly

\* mpool_push_message: on Ok the message is in the parent's message pool.
LoopPush ==
  /\ LoopAt("push")
  /\ \E ok \in BOOLEAN :
        /\ loop' = loop_at(loop, submit_push(loop.s, ok))
        /\ LET m == submit_message(loop) IN
           IF ok
             THEN /\ chain' = [chain EXCEPT !.mpool = @ \cup {m}]
                  /\ hist' = [hist EXCEPT !.last[m.from] = m.epoch,
                                          !.tick = @ \cup {m.from}]
             ELSE UNCHANGED <<chain, hist>>
  /\ LoopOnly

LoopWait ==
  /\ LoopAt("waitmsg")
  /\ \E ok \in {wait_included(chain, submit_message(loop)), FALSE} :
        loop' = loop_at(loop, submit_wait(loop.s, ok))
  /\ UNCHANGED <<chain, hist>>
  /\ LoopOnly

LoopTimer ==
  /\ LoopAt("wait")
  /\ loop' = loop_at(loop, wait_next_iteration(loop.s, TRUE))
  /\ UNCHANGED <<chain, hist>>
  /\ LoopOnly

\* The owner of the future calls stop_notify.notify_waiters().
LoopNotify ==
  /\ loop.s.pc \in ActivePcs
  /\ loop' = [loop EXCEPT !.s = notify_waiters(<<@>>)[1]]
  /\ UNCHANGED <<chain, hist>>
  /\ LoopOnly

LoopStop ==
  /\ LoopAt("wait")
  /\ loop.s.notified
  /\ loop' = loop_at(loop, wait_next_iteration(loop.s, FALSE))
  /\ UNCHANGED <<chain, hist>>
  /\ LoopOnly

\* The child chain grows.
ChainAdvance ==
  /\ chain.height + BlocksPerPoll \in Heights
  /\ chain' = [chain EXCEPT !.height = @ + BlocksPerPoll]
  /\ UNCHANGED <<loop, hist>>
  /\ LoopOnly

\* The parent commits the child's checkpoint of epoch e (the votes of the
\* validators, managed here or not, reached the threshold): the first one at any
\* epoch, then epoch after epoch; the votes of the closed windows are dropped.
ChainCommit(e) ==
  /\ e % chain.period = 0
  /\ e > 0
  /\ chain.committed # {} => e - chain.period \in chain.committed
  /\ e \notin chain.committed
  /\ chain' = [chain EXCEPT !.committed = @ \cup {e},
                            !.votes = {v \in @ : v[2] > e}]
  /\ hist' = [hist EXCEPT !.raced = loop.s.pc \in InTickPcs]
  /\ UNCHANGED loop
  /\ LoopOnly

\* A validator leaves the child subnet: the subnet actor drops it from the set.
ChainLeave(a) ==
  /\ a \in chain.validators
  /\ chain' = [chain EXCEPT !.validators = @ \ {a}]
  /\ UNCHANGED <<loop, hist>>
  /\ LoopOnly

\* The parent includes a pooled message in a block and executes it.
ChainInclude(m) ==
  /\ m \in chain.mpool
  /\ chain' = [chain EXCEPT !.mpool = @ \ {m},
                            !.votes = IF vote_accepted(chain, m)
                                        THEN @ \cup {<<m.from, m.epoch>>} ELSE @]
  /\ UNCHANGED <<loop, hist>>
  /\ LoopOnly

\* ------------------- manage_topdown_checkpoints and submit_topdown_checkpoint
TdLoopPcs == {"t_init_head", "t_init_state", "t_parent_head", "t_child_head",
              "t_gw_state", "t_parent_head2", "t_sa_state", "t_wait"}
TdSubmitPcs == {"s_head", "s_tipset", "s_gw_state", "s_msgs", "s_push"}

\* The future manage_topdown_checkpoints((child, parent), stop_notify) before its
\* first poll, with its locals.
NewTopDown(pair) ==
  [mode |-> "loop", child |-> pair[1], pc |-> "t_init_head", period |-> NoEpoch,
   curr_epoch |-> NoEpoch, last_exec |-> NoEpoch, submission_epoch |-> NoEpoch,
   idx |-> 0, tipset |-> NoEpoch, nonce |-> NoEpoch, msgs |-> <<>>,
   first_epoch |-> NoEpoch, notified |-> FALSE]

\* The future submit_topdown_checkpoint(submission_epoch, last_executed, account, ..)
\* of a direct call.
NewSubmitTopDown(pair, submission_epoch, last_executed, idx) ==
  [NewTopDown(pair) EXCEPT !.mode = "call", !.pc = "s_head", !.idx = idx,
                           !.submission_epoch = submission_epoch,
                           !.last_exec = last_executed]

\* The body of `if !has_voted` (line 112-154) entered for the account at idx, in
\* a tick that read curr_epoch and last_exec = 0: the first call of
\* submit_topdown_checkpoint (line 114-122) begins.
NewSecondOpportunity(pair, period, curr_epoch, idx) ==
  [NewTopDown(pair) EXCEPT !.mode = "block", !.pc = "s_head", !.idx = idx,
                           !.period = period, !.curr_epoch = curr_epoch,
                           !.last_exec = 0, !.submission_epoch = period]

\* The future ends: "ok" (return Ok), "err" (`?`), "panic" (unwrap, assert_eq!).
TdEnd(t, how) == [NewTopDown(<<t.child>>) EXCEPT !.mode = t.mode, !.pc = how]

\* The select! at the end of an iteration; the locals of the iteration end.
TdWait(t) == [NewTopDown(<<t.child>>) EXCEPT !.pc = "t_wait", !.period = t.period]

\* chain_head() / get_tipset_by_height().await?, cids.first().unwrap(), Cid::try_from?
td_first_cid(t, r, next) ==
  IF ~r.ok THEN TdEnd(t, "err")
  ELSE IF r.cids = 0 THEN TdEnd(t, "panic")
  ELSE [t EXCEPT !.pc = next]

\* line 52-53: period = state.top_down_check_period
td_init_state(t, ok, period) ==
  IF ok THEN [t EXCEPT !.pc = "t_parent_head", !.period = period] ELSE TdEnd(t, "err")

\* line 56-57: curr_epoch = ChainEpoch::try_from(parent_head.height)?
td_parent_head(t, r, height) ==
  IF r.ok THEN [t EXCEPT !.pc = "t_child_head", !.curr_epoch = height]
  ELSE TdEnd(t, "err")

\* Mutant of td_gateway_state: the latest checkpoint epoch the parent has reached.
td_gateway_state_latest(t, ok, last_voting_executed) ==
  IF ~ok THEN TdEnd(t, "err")
  ELSE IF checkpoint_epoch(t.curr_epoch, t.period) > last_voting_executed
    THEN [t EXCEPT !.pc = "t_parent_head2", !.last_exec = last_voting_executed,
                   !.submission_epoch = checkpoint_epoch(t.curr_epoch, t.period)]
    ELSE TdWait(t)

\* line 64-71: last_exec, submission_epoch = last_exec + period, the comparison.
td_gateway_state(t, ok, last_voting_executed) ==
  IF ~ok THEN TdEnd(t, "err")
  ELSE IF t.curr_epoch >= last_voting_executed + t.period
    THEN [t EXCEPT !.pc = "t_parent_head2", !.last_exec = last_voting_executed,
                   !.submission_epoch = last_voting_executed + t.period]
    ELSE TdWait(t)

\* line 74-77: chain_head().await?, assert_eq!(cids.len(), 1), Cid::try_from?
td_parent_head2(t, r) ==
  IF ~r.ok THEN TdEnd(t, "err")
  ELSE IF r.cids # 1 THEN TdEnd(t, "panic")
  ELSE [t EXCEPT !.pc = "t_sa_state"]

\* line 111: let has_voted = true;
has_voted == TRUE

\* line 79-156: the validator set, then the for loop over child.accounts: the first
\* account in the set with !has_voted gets submit_topdown_checkpoint called.
td_accounts(t, ok, vset) ==
  LET C == {j \in 1..Len(t.child.accounts) : t.child.accounts[j] \in vset /\ ~has_voted}
  IN IF ~ok THEN TdEnd(t, "err")
     ELSE IF C = {} THEN TdWait(t)
     ELSE [t EXCEPT !.pc = "s_head", !.idx = CHOOSE j \in C : \A k \in C : j <= k]

\* line 161-164: the sleep fires (continue) or the notification arrives (break).
td_select(t, timer_first) ==
  IF timer_first THEN [t EXCEPT !.pc = "t_parent_head", !.notified = FALSE]
  ELSE TdEnd(t, "ok")

\* line 190-192: the child's head, the tipset the lookup by height starts from.
std_head(t, r, head_height) ==
  LET t2 == td_first_cid(t, r, "s_tipset")
  IN IF t2.pc = "s_tipset" THEN [t2 EXCEPT !.tipset = head_height] ELSE t2

\* Mutant of std_tipset: the state is read at the child's head.
std_tipset_head(t, r) == td_first_cid(t, r, "s_gw_state")

\* line 193-197: submission_tip_set = get_tipset_by_height(last_executed + 2, child_head)
std_tipset(t, r) ==
  LET t2 == td_first_cid(t, r, "s_gw_state")
  IN IF t2.pc = "s_gw_state" THEN [t2 EXCEPT !.tipset = t.last_exec + 2] ELSE t2

\* The applied_topdown_nonce in the child's gateway state at the tipset of height
\* h: the head may have applied messages the earlier tipsets have not.
AppliedAt(c, h) == IF h >= c.head_height THEN c.applied_head ELSE c.applied

\* ipc_get_topdown_msgs(child, gateway, nonce) on the parent: the messages it
\* holds for the child with that nonce or a later one.
ipc_get_topdown_msgs(c, nonce) == SelectSeq(c.msgs, LAMBDA n : n >= nonce)

\* line 199-202: nonce = state.applied_topdown_nonce + 1
std_gateway_state(t, ok, applied_topdown_nonce) ==
  IF ok THEN [t EXCEPT !.pc = "s_msgs", !.nonce = applied_topdown_nonce + 1]
  ELSE TdEnd(t, "err")

\* line 206-212: top_down_msgs = parent_client.ipc_get_topdown_msgs(.., nonce).await?
std_msgs(t, ok, msgs) ==
  IF ok THEN [t EXCEPT !.pc = "s_push", !.msgs = msgs] ELSE TdEnd(t, "err")

\* line 215-226: the message: TopDownCheckpoint {epoch, top_down_msgs}, from the
\* account; line 227: pushed through parent_client.
topdown_message(t) ==
  [from |-> t.child.accounts[t.idx], epoch |-> t.submission_epoch,
   top_down_msgs |-> t.msgs, to |-> "gateway", client |-> "parent"]

\* The end of the body of `if !has_voted` (line 154).
td_block_end(t) == IF t.mode = "block" THEN TdEnd(t, "ok") ELSE TdWait(t)

\* line 227-229: mpool_push_message(message).await?; Ok(()). Called from the loop
\* at line 114, the caller goes on at line 132; called at line 144, at line 154.
std_push(t, ok) ==
  IF ~ok THEN TdEnd(t, "err")
  ELSE IF t.mode = "call" THEN TdEnd(t, "ok")
  ELSE IF t.first_epoch = NoEpoch
    THEN [t EXCEPT !.pc = "t_again", !.first_epoch = t.submission_epoch]
    ELSE td_block_end(t)

\* line 132-133: the parent's head again, curr_epoch.
td_again_parent_head(t, r, height) ==
  IF r.ok THEN [t EXCEPT !.pc = "a_child_head", !.curr_epoch = height]
  ELSE TdEnd(t, "err")

\* line 137-153: last_exec and submission_epoch again; the second call of
\* submit_topdown_checkpoint when curr_epoch >= submission_epoch.
td_again_gateway_state(t, ok, last_voting_executed) ==
  IF ~ok THEN TdEnd(t, "err")
  ELSE IF t.curr_epoch >= last_voting_executed + t.period
    THEN [t EXCEPT !.pc = "s_head", !.last_exec = last_voting_executed,
                   !.submission_epoch = last_voting_executed + t.period]
    ELSE td_block_end(t)

\* The nonces the parent returns to ipc_get_topdown_msgs(.., nonce): at most
\* MaxMsgs messages with nonces from `nonce` on.
TopDownMsgs(nonce) == UNION {[1..n -> nonce..(nonce + MaxMsgs)] : n \in 0..MaxMsgs}

TdAt(pc) == td.pc = pc
TdOnly == UNCHANGED <<runVars, probeVars, loopVars, evm, sc, lotus>>
TdMoves(t2) == td' = t2 /\ UNCHANGED tdchain /\ TdOnly

\* line 46-48
TdInitHead ==
  /\ TdAt("t_init_head")
  /\ \E r \in HeadResponses : TdMoves(td_first_cid(td, r, "t_init_state"))

TdInitState ==
  /\ TdAt("t_init_state")
  /\ \E ok \in BOOLEAN : TdMoves(td_init_state(td, ok, tdchain.period))

TdParentHead ==
  /\ TdAt("t_parent_head")
  /\ \E r \in HeadResponses : TdMoves(td_parent_head(td, r, tdchain.parent_height))

\* line 61-63
TdChildHead ==
  /\ TdAt("t_child_head")
  /\ \E r \in HeadResponses : TdMoves(td_first_cid(td, r, "t_gw_state"))

TdGatewayState ==
  /\ TdAt("t_gw_state")
  /\ \E ok \in BOOLEAN : TdMoves(td_gateway_state(td, ok, tdchain.last_executed))

TdParentHead2 ==
  /\ TdAt("t_parent_head2")
  /\ \E r \in HeadResponses : TdMoves(td_parent_head2(td, r))

TdActorState ==
  /\ TdAt("t_sa_state")
  /\ \E ok \in BOOLEAN : TdMoves(td_accounts(td, ok, tdchain.validators))

TdTimer ==
  /\ TdAt("t_wait")
  /\ TdMoves(td_select(td, TRUE))

\* The owner of the future calls stop_notify.notify_waiters().
TdNotify ==
  /\ TdAt("t_wait")
  /\ ~td.notified
  /\ TdMoves([td EXCEPT !.notified = TRUE])

TdStop ==
  /\ TdAt("t_wait")
  /\ td.notified
  /\ TdMoves(td_select(td, FALSE))

\* line 190-192
StdHead ==
  /\ TdAt("s_head")
  /\ \E r \in HeadResponses : TdMoves(std_head(td, r, tdchain.head_height))

\* line 193-197
StdTipset ==
  /\ TdAt("s_tipset")
  /\ \E r \in HeadResponses : TdMoves(std_tipset(td, r))

StdGatewayState ==
  /\ TdAt("s_gw_state")
  /\ \E ok \in BOOLEAN : TdMoves(std_gateway_state(td, ok, AppliedAt(tdchain, td.tipset)))

StdMsgs ==
  /\ TdAt("s_msgs")
  /\ \E ok \in BOOLEAN : TdMoves(std_msgs(td, ok, ipc_get_topdown_msgs(tdchain, td.nonce)))

StdPush ==
  /\ TdAt("s_push")
  /\ \E ok \in BOOLEAN :
        /\ td' = std_push(td, ok)
        /\ tdchain' = IF ok THEN [tdchain EXCEPT !.mpool = @ \cup {topdown_message(td)}]
                      ELSE tdchain
  /\ TdOnly

\* line 132-133
TdAgainParentHead ==
  /\ TdAt("t_again")
  /\ \E r \in HeadResponses :
        TdMoves(td_again_parent_head(td, r, tdchain.parent_height))

\* line 134-136
TdAgainChildHead ==
  /\ TdAt("a_child_head")
  /\ \E r \in HeadResponses : TdMoves(td_first_cid(td, r, "a_gw_state"))

\* line 137-153
TdAgainGatewayState ==
  /\ TdAt("a_gw_state")
  /\ \E ok \in BOOLEAN : TdMoves(td_again_gateway_state(td, ok, tdchain.last_executed))

\* The parent chain grows (the loop reads its height; a direct call of
\* submit_topdown_checkpoint reads none).
ParentAdvance ==
  /\ td.mode # "call"
  /\ tdchain.parent_height + BlocksPerPoll \in Heights
  /\ tdchain' = [tdchain EXCEPT !.parent_height = @ + BlocksPerPoll]
  /\ UNCHANGED td
  /\ TdOnly

\* The child executes the top-down checkpoint of the next submission epoch (the
\* votes of the validators, managed here or not, reached the threshold).
ChildExecute ==
  /\ td.mode # "call"
  /\ tdchain.last_executed + tdchain.period <= tdchain.parent_height
  /\ tdchain' = [tdchain EXCEPT !.last_executed = @ + tdchain.period]
  /\ UNCHANGED td
  /\ TdOnly

\* The chain the message was pushed to includes it in a block.
TdInclude(m) ==
  /\ m \in tdchain.mpool
  /\ tdchain' = [tdchain EXCEPT !.mpool = @ \ {m}]
  /\ UNCHANGED td
  /\ TdOnly

TdStep ==
  \/ TdInitHead \/ TdInitState \/ TdParentHead \/ TdChildHead \/ TdGatewayState
  \/ TdParentHead2 \/ TdActorState \/ TdTimer \/ TdStop
  \/ StdHead \/ StdTipset \/ StdGatewayState \/ StdMsgs \/ StdPush
  \/ TdAgainParentHead \/ TdAgainChildHead \/ TdAgainGatewayState

\* ------------------------------------------------ EVM backend: EthSubnetManager
\* Bytes of an EVM address: the slice [0..20] of line 510.
EVM_ADDRESS_LEN == 20
\* line 35
SUBNET_NAME_MAX_LEN == 32
\* line 34
TRANSACTION_RECEIPT_RETRIES == 10
\* Namespace of the delegated addresses of EVM accounts (f410..., line 526).
EAM_NAMESPACE == 10
\* Some other namespace of a delegated address.
OTHER_NAMESPACE == 32

\* Result<T>: Ok(v), Err(_); and the call that panics.
Ok(v) == [kind |-> "Ok", val |-> v]
Err == [kind |-> "Err", val |-> <<>>]
Panic == [kind |-> "Panic", val |-> <<>>]

\* EVM addresses (ethers::types::Address): 20 bytes. 0x00..00 and
\* 0x2e714a3c385ea88a09998ed74db265dae9853667 of the tests, and byte patterns.
Zero20 == [i \in 1..EVM_ADDRESS_LEN |-> 0]
TestEth == <<46, 113, 74, 60, 56, 94, 168, 138, 9, 153,
             142, 215, 77, 178, 101, 218, 233, 133, 54, 103>>
EthAddresses ==
  {Zero20, TestEth}
    \cup {[i \in 1..EVM_ADDRESS_LEN |-> (k * i + 255) % 256] : k \in 0..MaxStride}

\* fvm_shared::address::Payload: the address classes.
ID(n) == [proto |-> "ID", namespace |-> 0, subaddress |-> <<n>>]
Secp256k1(h) == [proto |-> "Secp256k1", namespace |-> 0, subaddress |-> h]
Delegated(ns, sub) == [proto |-> "Delegated", namespace |-> ns, subaddress |-> sub]

Extras == UNION {[1..n -> {0, 7}] : n \in 1..MaxExtra}
SubAddresses ==
  {SubSeq(a, 1, n) : a \in EthAddresses,
                     n \in {0, EVM_ADDRESS_LEN - 1, EVM_ADDRESS_LEN}}
    \cup {a \o x : a \in EthAddresses, x \in Extras}
Payloads ==
  {Delegated(ns, sub) : ns \in {EAM_NAMESPACE, OTHER_NAMESPACE}, sub \in SubAddresses}
    \cup {Secp256k1(h) : h \in EthAddresses} \cup {ID(1), ID(64)}

\* The text forms of an address: characters as one-letter strings.
Hex == <<"0", "1", "2", "3", "4", "5", "6", "7",
         "8", "9", "a", "b", "c", "d", "e", "f">>
hex_of(bytes) ==
  [i \in 1..(2 * Len(bytes)) |->
     LET b == bytes[(i + 1) \div 2]
     IN Hex[(IF i % 2 = 1 THEN b \div 16 ELSE b % 16) + 1]]
\* format!("{addr:?}"): 0x and the 40 hex digits.
format_debug(addr) == <<"0", "x">> \o hex_of(addr)
\* format!("{addr}"), to_string(): the summary 0x2e71...3667.
format_display(addr) ==
  <<"0", "x">> \o hex_of(SubSeq(addr, 1, 2)) \o <<".", ".", ".">>
    \o hex_of(SubSeq(addr, EVM_ADDRESS_LEN - 1, EVM_ADDRESS_LEN))
IsHex(c) == \E v \in 1..16 : Hex[v] = c
hex_value(c) == (CHOOSE v \in 1..16 : Hex[v] = c) - 1

\* primitives::EthAddress::from_str: 40 hex digits after an optional 0x.
EthAddress_from_str(str) ==
  LET s == IF Len(str) >= 2 /\ str[1] = "0" /\ str[2] = "x"
             THEN SubSeq(str, 3, Len(str)) ELSE str
  IN IF Len(s) # 2 * EVM_ADDRESS_LEN \/ (\E i \in 1..Len(s) : ~IsHex(s[i])) THEN Err
     ELSE Ok([i \in 1..EVM_ADDRESS_LEN |->
                16 * hex_value(s[2 * i - 1]) + hex_value(s[2 * i])])

\* Address::from(EthAddress): the delegated address f410 with the 20 bytes.
Address_from_EthAddress(eth_addr) == Delegated(EAM_NAMESPACE, eth_addr)

\* Mutant of ethers_address_to_fil_address: the address printed with to_string().
ethers_address_to_fil_address_summary(addr) ==
  LET eth_addr == EthAddress_from_str(format_display(addr))
  IN IF eth_addr.kind # "Ok" THEN Err ELSE Ok(Address_from_EthAddress(eth_addr.val))

\* line 457-465
ethers_address_to_fil_address(addr) ==
  LET eth_addr == EthAddress_from_str(format_debug(addr))
  IN IF eth_addr.kind # "Ok" THEN Err ELSE Ok(Address_from_EthAddress(eth_addr.val))

\* line 506-514: only Payload::Delegated; &slice[0..20] panics on a shorter slice.
payload_to_evm_address(payload) ==
  IF payload.proto # "Delegated" THEN Err
  ELSE IF Len(payload.subaddress) < EVM_ADDRESS_LEN THEN Panic
  ELSE Ok(SubSeq(payload.subaddress, 1, EVM_ADDRESS_LEN))

\* SubnetID: root and children (the path).
Segments ==
  {Delegated(EAM_NAMESPACE, TestEth), Delegated(EAM_NAMESPACE, Zero20),
   Delegated(EAM_NAMESPACE, SubSeq(TestEth, 1, EVM_ADDRESS_LEN - 1)),
   Delegated(EAM_NAMESPACE, TestEth \o <<7>>),
   Delegated(OTHER_NAMESPACE, TestEth), Secp256k1(TestEth), ID(1)}
EvmSubnetIDs ==
  {[root |-> 314, children |-> c] : c \in UNION {[1..n -> Segments] : n \in 0..MaxRoute}}

\* line 499-502: children.iter().map(..).collect::<Result<_>>() stops at the first Err.
RECURSIVE collect(_, _)
collect(children, acc) ==
  IF children = <<>> THEN Ok(acc)
  ELSE LET r == payload_to_evm_address(Head(children))
       IN IF r.kind = "Ok" THEN collect(Tail(children), Append(acc, r.val)) ELSE r

\* line 497-503
agent_subnet_to_evm_addresses(subnet) == collect(subnet.children, <<>>)

\* line 486-493
last_evm_address(subnet) ==
  IF subnet.children = <<>> THEN Err
  ELSE payload_to_evm_address(subnet.children[Len(subnet.children)])

\* line 426-454: the manager of a subnet whose config names gateway_addr.
from_subnet(gateway_addr) ==
  LET a == payload_to_evm_address(gateway_addr)
  IN IF a.kind # "Ok" THEN a
     ELSE Ok([gateway_addr |-> gateway_addr, gateway_contract |-> a.val])

TheManager == from_subnet(Delegated(EAM_NAMESPACE, TestEth)).val

\* line 415-422
ensure_same_gateway(self, gateway) ==
  LET evm_gateway_addr == payload_to_evm_address(gateway)
  IN IF evm_gateway_addr.kind # "Ok" THEN evm_gateway_addr
     ELSE IF evm_gateway_addr.val # self.gateway_contract THEN Err
     ELSE Ok(<<>>)

\* line 60-64: atto().to_u128() is None for a negative amount.
to_u128(atto) == IF atto < 0 THEN Err ELSE Ok(atto)

\* line 57-58: [0u8; 32] with the bytes of the name copied in.
name_array(name) ==
  [i \in 1..SUBNET_NAME_MAX_LEN |-> IF i <= Len(name) THEN name[i] ELSE 0]

\* line 51-89: create_subnet up to the call it builds for the registry.
new_subnet_actor(self, params) ==
  LET same == ensure_same_gateway(self, params.ipc_gateway_addr)
      stake == to_u128(params.min_validator_stake)
      route == agent_subnet_to_evm_addresses(params.parent)
  IN IF same.kind # "Ok" THEN same
     ELSE IF Len(params.name) > SUBNET_NAME_MAX_LEN THEN Err
     ELSE IF stake.kind # "Ok" THEN Err
     ELSE IF route.kind # "Ok" THEN route
     ELSE Ok([parent_id |-> [root |-> params.parent.root, route |-> route.val],
              name |-> name_array(params.name),
              ipc_gateway_addr |-> self.gateway_contract,
              min_activation_collateral |-> stake.val])

\* Transaction receipts: the call failed, no receipt, or a receipt with its logs
\* (a log is a SubnetDeployed event with the subnet address, or something else).
NoEvent == <<>>
Receipts ==
  {[kind |-> "Err", logs |-> <<>>], [kind |-> "None", logs |-> <<>>]}
    \cup {[kind |-> "Some", logs |-> l] :
            l \in UNION {[1..n -> {NoEvent, TestEth}] : n \in 0..MaxLogs}}

\* line 94-119: the first log that parses as SubnetDeployed gives the address.
create_subnet_receipt(receipt) ==
  LET D == {i \in 1..Len(receipt.logs) : receipt.logs[i] # NoEvent}
  IN IF receipt.kind # "Some" \/ D = {} THEN Err
     ELSE ethers_address_to_fil_address(receipt.logs[CHOOSE i \in D : \A j \in D : i <= j])

\* Subnet names: byte strings of every length up to beyond the maximum.
Names == {[i \in 1..n |-> 97 + (i % 3)] : n \in 0..(SUBNET_NAME_MAX_LEN + MaxOver)}
ConstructParamsSet ==
  [name : Names, ipc_gateway_addr : Segments,
   parent : {[root |-> 314, children |-> c] :
               c \in {<<>>, <<Delegated(EAM_NAMESPACE, TestEth)>>, <<ID(1)>>}},
   min_validator_stake : {0 - 1, 1}]

\* A call on the backend before it runs.
NewEvmCall(op, arg) ==
  [op |-> op, arg |-> arg, pc |-> "call", res |-> Err, txs |-> <<>>, polls |-> 0,
   receipt |-> [kind |-> "Unknown", val |-> <<>>]]
EvmDone(res) == evm' = [evm EXCEPT !.pc = "done", !.res = res]
EvmAt(op, pc) == evm.op = op /\ evm.pc = pc
EvmOnly == UNCHANGED <<runVars, probeVars, loopVars, tdVars, sc, lotus>>

CallEthersAddressToFil ==
  /\ EvmAt("ethers_address_to_fil_address", "call")
  /\ EvmDone(ethers_address_to_fil_address(evm.arg))
  /\ EvmOnly

CallPayloadToEvm ==
  /\ EvmAt("payload_to_evm_address", "call")
  /\ EvmDone(payload_to_evm_address(evm.arg))
  /\ EvmOnly

CallAgentSubnetToEvm ==
  /\ EvmAt("agent_subnet_to_evm_addresses", "call")
  /\ EvmDone(agent_subnet_to_evm_addresses(evm.arg))
  /\ EvmOnly

CallLastEvm ==
  /\ EvmAt("last_evm_address", "call")
  /\ EvmDone(last_evm_address(evm.arg))
  /\ EvmOnly

\* line 50-90: create_subnet up to call.send().await?
CreateSubnetSend ==
  /\ EvmAt("create_subnet", "call")
  /\ LET call == new_subnet_actor(TheManager, evm.arg)
     IN IF call.kind # "Ok" THEN EvmDone(call)
        ELSE \E sent \in BOOLEAN :
               IF sent
                 THEN evm' = [evm EXCEPT !.pc = "sent", !.txs = Append(@, call.val)]
                 ELSE EvmDone(Err)
  /\ EvmOnly

\* line 94-119: pending_tx.retries(..).await? and the logs of the receipt
CreateSubnetReceipt ==
  /\ EvmAt("create_subnet", "sent")
  /\ \E receipt \in Receipts : EvmDone(create_subnet_receipt(receipt))
  /\ EvmOnly

\* The checkpoints handed to the EVM submissions: a top-down checkpoint, and
\* bottom-up checkpoints by the route of their source.
EvmTopDownCheckpoints == {[epoch |-> e, top_down_msgs |-> <<>>] : e \in {10, 20}}
EvmBottomUpCheckpoints ==
  {[source |-> [root |-> 314, route |-> r], epoch |-> 10] :
     r \in UNION {[1..n -> {Zero20, TestEth}] : n \in 0..MaxRoute}}
SubmitOps == {"submit_top_down_checkpoint", "submit_bottom_up_checkpoint"}

\* A transaction receipt as eth_getTransactionReceipt returns it: the number of
\* the block that holds the transaction, or none.
NoBlockNumber == [some |-> FALSE, n |-> 0]
SubmitReceipts ==
  {[block_number |-> NoBlockNumber]}
    \cup {[block_number |-> [some |-> TRUE, n |-> h]] : h \in Heights}

\* Mutant of block_number_from_receipt: a receipt without a block number counts
\* as block 0.
block_number_from_receipt_zero(receipt) ==
  IF receipt.kind = "Some"
    THEN Ok(receipt.val.block_number.n)
    ELSE Err

\* line 468-482: Some(r): r.block_number.ok_or_else(..)?, Ok(block_number as
\* ChainEpoch); None: Err
block_number_from_receipt(receipt) ==
  IF receipt.kind = "Some"
    THEN IF receipt.val.block_number.some
           THEN Ok(receipt.val.block_number.n)
           ELSE Err
    ELSE Err

\* line 289, 299-309: the transaction: to the gateway contract, or to the
\* contract at route[route.len() - 1], which panics on an empty route.
submit_txn(self, op, checkpoint) ==
  IF op = "submit_top_down_checkpoint"
    THEN Ok([to |-> self.gateway_contract, method |-> op, checkpoint |-> checkpoint])
  ELSE IF Len(checkpoint.source.route) = 0 THEN Panic
  ELSE Ok([to |-> checkpoint.source.route[Len(checkpoint.source.route)],
           method |-> op, checkpoint |-> checkpoint])

\* line 290, 310: txn.send().await?
EvmSubmitSend ==
  /\ evm.op \in SubmitOps
  /\ evm.pc = "call"
  /\ LET txn == submit_txn(TheManager, evm.op, evm.arg)
     IN IF txn.kind # "Ok" THEN EvmDone(txn)
        ELSE \E sent \in BOOLEAN :
               IF sent
                 THEN evm' = [evm EXCEPT !.pc = "sent", !.txs = Append(@, txn.val)]
                 ELSE EvmDone(Err)
  /\ EvmOnly

\* line 291, 311: pending_tx.retries(TRANSACTION_RECEIPT_RETRIES).await?: the
\* receipt is asked for; a missing one is asked for again until the retries are
\* used up, and then the future yields None.
EvmSubmitPoll ==
  /\ evm.op \in SubmitOps
  /\ evm.pc = "sent"
  /\ \/ EvmDone(Err)
     \/ \E r \in SubmitReceipts :
          evm' = [evm EXCEPT !.pc = "receipt", !.receipt = [kind |-> "Some", val |-> r]]
     \/ IF evm.polls < TRANSACTION_RECEIPT_RETRIES
          THEN evm' = [evm EXCEPT !.polls = @ + 1]
          ELSE evm' = [evm EXCEPT !.pc = "receipt",
                                  !.receipt = [kind |-> "None", val |-> <<>>]]
  /\ EvmOnly

\* line 292, 312: block_number_from_receipt(receipt)
EvmSubmitReceipt ==
  /\ evm.op \in SubmitOps
  /\ evm.pc = "receipt"
  /\ EvmDone(block_number_from_receipt(evm.receipt))
  /\ EvmOnly

\* ------------------------------------------------------- submit_checkpoint
\* Cid of the tipset at a height of the child chain, and Cid::to_bytes: the
\* version and codec bytes, then the digest.
TipsetCids == 1..2
to_bytes(cid) == <<1, 113, cid>>
\* TCid::default(), the value Checkpoint::new leaves in prev_check; the CID of a
\* previous checkpoint.
DefaultCid == 0
PrevCid == 9

\* line 284: Checkpoint::new(child_subnet.id.clone(), epoch)
Checkpoint_new(source, epoch) ==
  [source |-> source, epoch |-> epoch, children |-> <<>>, cross_msgs |-> <<>>,
   prev_check |-> DefaultCid, proof |-> <<>>]

\* What ipc_get_checkpoint_template(epoch) answers: the template the child's
\* gateway holds for the epoch (children by source SubnetID, cross_msgs by
\* nonce), or an error.
ChildSources == {<<"a", "c">>, <<"a", "d">>}
Templates ==
  {[children |-> ch, cross_msgs |-> cm] :
     ch \in UNION {[1..n -> ChildSources] : n \in 0..MaxChildren},
     cm \in UNION {[1..n -> 1..(MaxCross + 1)] : n \in 0..MaxCross}}
TemplateResponses == {Err} \cup {Ok(t) : t \in Templates}

\* What ipc_get_prev_checkpoint_for_child(child) answers: an error, None, or
\* Some(cid map), which Cid::try_from accepts or not.
NoPrev == [some |-> FALSE, valid |-> FALSE, cid |-> DefaultCid]
PrevResponses ==
  {Err, Ok(NoPrev), Ok([some |-> TRUE, valid |-> TRUE, cid |-> PrevCid]),
   Ok([some |-> TRUE, valid |-> FALSE, cid |-> DefaultCid])}

\* SubnetID::subnet_actor(): the last address of the route.
subnet_actor(id) == id[Len(id)]

\* The call submit_checkpoint(child_tip_set, epoch, account, child_subnet, ..) made
\* by manage_subnet (line 229-248) in a tick that read child_tip_set; head is the
\* tipset the child chain is at now, mpool the parent's message pool, done the
\* lookups of the call that have succeeded so far.
NewSubmitCheckpoint(child_subnet, child_tip_set, epoch, account) ==
  [pc |-> "tmpl", child |-> child_subnet, child_tip_set |-> child_tip_set,
   epoch |-> epoch, account |-> account,
   checkpoint |-> Checkpoint_new(child_subnet.id, epoch),
   template |-> [children |-> <<>>, cross_msgs |-> <<>>], response |-> NoPrev,
   head |-> child_tip_set, mpool |-> {}, done |-> <<>>]

ScEnd(c, how) == [c EXCEPT !.pc = how]

\* Mutant of sc_template: the previous checkpoint is not looked up.
sc_template_skip_prev(c, r) ==
  IF r.kind # "Ok" THEN ScEnd(c, "err")
  ELSE [c EXCEPT !.pc = "push", !.template = r.val,
                 !.done = Append(@, "ipc_get_checkpoint_template"),
                 !.checkpoint.children = r.val.children,
                 !.checkpoint.cross_msgs = r.val.cross_msgs,
                 !.checkpoint.proof = to_bytes(c.child_tip_set)]

\* line 292-303: the template, `?`, children and cross_msgs copied from it.
sc_template(c, r) ==
  IF r.kind # "Ok" THEN ScEnd(c, "err")
  ELSE [c EXCEPT !.pc = "prev", !.template = r.val,
                 !.done = Append(@, "ipc_get_checkpoint_template"),
                 !.checkpoint.children = r.val.children,
                 !.checkpoint.cross_msgs = r.val.cross_msgs]

\* Mutant of sc_prev: the proof is the child's tipset at the time of the call.
sc_prev_current_head(c, r) ==
  IF r.kind # "Ok" THEN ScEnd(c, "err")
  ELSE IF r.val.some /\ ~r.val.valid THEN ScEnd(c, "err")
  ELSE [c EXCEPT !.pc = "push", !.response = r.val,
                 !.done = Append(@, "ipc_get_prev_checkpoint_for_child"),
                 !.checkpoint.prev_check = IF r.val.some THEN r.val.cid ELSE @,
                 !.checkpoint.proof = to_bytes(c.head)]

\* line 311-328: the previous checkpoint, `?`; if response.is_some(), prev_check
\* = Cid::try_from(response.unwrap())?; proof = child_tip_set.to_bytes().
sc_prev(c, r) ==
  IF r.kind # "Ok" THEN ScEnd(c, "err")
  ELSE IF r.val.some /\ ~r.val.valid THEN ScEnd(c, "err")
  ELSE [c EXCEPT !.pc = "push", !.response = r.val,
                 !.done = Append(@, "ipc_get_prev_checkpoint_for_child"),
                 !.checkpoint.prev_check = IF r.val.some THEN r.val.cid ELSE @,
                 !.checkpoint.proof = to_bytes(c.child_tip_set)]

\* line 335-342: the message to the subnet actor of the child, from the account.
checkpoint_message(c) ==
  [to |-> subnet_actor(c.child.id), from |-> c.account,
   method |-> "SubmitCheckpoint", checkpoint |-> c.checkpoint]

\* line 343-352: parent_client.mpool_push_message(message).await?
sc_push(c, ok) ==
  IF ok THEN [c EXCEPT !.pc = "waitmsg", !.mpool = @ \cup {checkpoint_message(c)}]
  ELSE ScEnd(c, "err")

\* line 355-361: cid()?, state_wait_msg(message_cid).await?, Ok(())
sc_wait(c, ok) == IF ok THEN ScEnd(c, "ok") ELSE ScEnd(c, "err")

ScAt(pc) == sc.pc = pc
ScOnly == UNCHANGED <<runVars, probeVars, loopVars, tdVars, evm, lotus>>

ScTemplate ==
  /\ ScAt("tmpl")
  /\ \E r \in TemplateResponses : sc' = sc_template(sc, r)
  /\ ScOnly

ScPrev ==
  /\ ScAt("prev")
  /\ \E r \in PrevResponses : sc' = sc_prev(sc, r)
  /\ ScOnly

ScPush ==
  /\ ScAt("push")
  /\ \E ok \in BOOLEAN : sc' = sc_push(sc, ok)
  /\ ScOnly

ScWait ==
  /\ ScAt("waitmsg")
  /\ \E ok \in {wait_included(sc, checkpoint_message(sc)), FALSE} :
        sc' = sc_wait(sc, ok)
  /\ ScOnly

\* The child chain produces a block after the tick read its head.
ScChildAdvance ==
  /\ sc.pc \in {"tmpl", "prev", "push"}
  /\ sc.head = sc.child_tip_set
  /\ sc' = [sc EXCEPT !.head = @ + 1]
  /\ ScOnly

\* The parent includes a pooled message in a block.
ScInclude(m) ==
  /\ m \in sc.mpool
  /\ sc' = [sc EXCEPT !.mpool = @ \ {m}]
  /\ ScOnly

\* ------------------------------------- native backend: LotusSubnetManager
\* SubnetID::to_string(): the root, then the route, one segment after the other.
SubnetID_to_string(id) == <<"root">> \o id
\* The network names a node can report to state_network_name().
NetworkNames == {SubnetID_to_string(id) : id \in {ROOT, <<"a">>, <<"b">>}}
LotusOps == {"create_subnet", "join_subnet", "leave_subnet", "kill_subnet"}
\* Err(anyhow!("subnet actor being deployed in the wrong parent network, ..."))
WrongNetwork == [kind |-> "Err", val |-> <<"wrong parent network">>]

\* A call of an operation of the manager on a SubnetID (params.parent of
\* create_subnet, subnet of the others), connected to a node of network `node`;
\* name is what state_network_name() answered, pushed the messages pushed.
NewLotusCall(op, arg, node) ==
  [op |-> op, arg |-> arg, node |-> node, pc |-> "call", name |-> <<>>,
   res |-> Err, pushed |-> <<>>]

LotusEnd(l, res) == [l EXCEPT !.pc = "done", !.res = res]

\* line 140-143: Ok(network.to_string() == network_name)
is_network_match(network, network_name) == SubnetID_to_string(network) = network_name

\* line 24-26, 58-60, 78-80, 94-96: state_network_name().await?; if
\* is_network_match(..) { return Err(..) }
lotus_check(l, ok) ==
  IF ~ok THEN LotusEnd(l, Err)
  ELSE IF is_network_match(l.arg, l.node)
    THEN LotusEnd([l EXCEPT !.name = l.node], WrongNetwork)
    ELSE [l EXCEPT !.name = l.node,
                   !.pc = IF l.op = "create_subnet" THEN "code_cid" ELSE "push"]

\* line 28, 147-158: get_subnet_actor_code_cid().await?
lotus_code_cid(l, ok) == IF ok THEN [l EXCEPT !.pc = "push"] ELSE LotusEnd(l, Err)

\* line 37-42, 62-69, 82-87, 98-103: the message of the operation.
lotus_message(l) ==
  [to |-> IF l.op = "create_subnet" THEN "INIT_ACTOR_ADDR" ELSE "subnet_actor",
   subnet |-> l.arg, method |-> l.op]

\* line 130-133: mpool_push_message(message).await?, cid()?
lotus_push(l, ok) ==
  IF ok THEN [l EXCEPT !.pc = "waitmsg", !.pushed = Append(@, lotus_message(l))]
  ELSE LotusEnd(l, Err)

\* line 136, then 45-48 / 74 / 90 / 106: state_wait_msg(message_cid, nonce).await?
\* and, for create_subnet, Address::from_str(&address_raw)?
lotus_wait(l, ok) ==
  IF ok THEN LotusEnd(l, Ok(IF l.op = "create_subnet" THEN <<"address">> ELSE <<>>))
  ELSE LotusEnd(l, Err)

LotusOnly == UNCHANGED <<runVars, probeVars, loopVars, tdVars, evm, sc>>

LotusCheck ==
  /\ lotus.pc = "call"
  /\ lotus.op \in LotusOps
  /\ \E ok \in BOOLEAN : lotus' = lotus_check(lotus, ok)
  /\ LotusOnly

LotusCodeCid ==
  /\ lotus.pc = "code_cid"
  /\ \E ok \in BOOLEAN : lotus' = lotus_code_cid(lotus, ok)
  /\ LotusOnly

LotusPush ==
  /\ lotus.pc = "push"
  /\ \E ok \in BOOLEAN : lotus' = lotus_push(lotus, ok)
  /\ LotusOnly

LotusWait ==
  /\ lotus.pc = "waitmsg"
  /\ \E ok \in BOOLEAN : lotus' = lotus_wait(lotus, ok)
  /\ LotusOnly

\* ------------------------------------------- the parts a specification leaves idle
RunIdle ==
  /\ latest = 1
  /\ chan = 0
  /\ chanFailed = FALSE
  /\ subscribed = FALSE
  /\ published = 0
  /\ shutdownRequested = FALSE
  /\ runPc = "start"
  /\ is_shutdown = FALSE
  /\ runResult = "none"
  /\ tasks = <<>>

ProbeIdle ==
  /\ probe_in = Snap({})
  /\ probe_out = <<>>
  /\ probe_done = FALSE

NewChain(period, validators) ==
  [height |-> 0, period |-> period, validators |-> validators, committed |-> {},
   votes |-> {}, mpool |-> {}]

NewHist ==
  [last |-> [a \in Accounts |-> NoEpoch], tick |-> {}, raced |-> FALSE, vread |-> {},
   cids |-> NoEpoch]

LoopIdle ==
  /\ loop = NewLoop(ThePair)
  /\ chain = NewChain(10, {})
  /\ hist = NewHist

NewTdChain(period, validators, applied, msgs) ==
  [parent_height |-> 0, last_executed |-> 0, period |-> period,
   validators |-> validators, applied |-> applied, msgs |-> msgs, mpool |-> {},
   head_height |-> 2, applied_head |-> applied]

TopDownIdle ==
  /\ td = NewTopDown(ThePair)
  /\ tdchain = NewTdChain(10, {}, 0, <<>>)

EvmIdle == evm = NewEvmCall("none", <<>>)

ScIdle == sc = NewSubmitCheckpoint(ThePair[1], 1, 10, "x")

LotusIdle == lotus = NewLotusCall("none", ROOT, <<>>)

\* ---------------------------------------------------------- specifications
Init ==
  /\ latest \in 1..Len(Configs)
  /\ chan = 0
  /\ chanFailed = FALSE
  /\ subscribed = FALSE
  /\ published = 0
  /\ shutdownRequested = FALSE
  /\ runPc = "start"
  /\ is_shutdown = FALSE
  /\ runResult = "none"
  /\ tasks = <<>>
  /\ probe_in = Snap({})
  /\ probe_out = <<>>
  /\ probe_done = FALSE
  /\ LoopIdle
  /\ TopDownIdle
  /\ EvmIdle
  /\ ScIdle
  /\ LotusIdle

Next ==
  \/ RunSubscribe
  \/ RunApply
  \/ RunSelectShutdown
  \/ RunSelectRecv
  \/ RunJoin
  \/ \E c \in 1..Len(Configs) : Publish(c)
  \/ ChannelFail
  \/ RequestShutdown
  \/ \E g \in 1..Len(tasks) : DriverFinish(g)
  \/ \E g \in 1..Len(tasks) : \E i \in 1..Len(tasks[g].sups) : SupInitHead(g, i)
  \/ \E g \in 1..Len(tasks) : \E i \in 1..Len(tasks[g].sups) : SupInitState(g, i)
  \/ \E g \in 1..Len(tasks) : \E i \in 1..Len(tasks[g].sups) : SupChildHead(g, i)
  \/ \E g \in 1..Len(tasks) : \E i \in 1..Len(tasks[g].sups) : SupGetCheckpoint(g, i)
  \/ \E g \in 1..Len(tasks) : \E i \in 1..Len(tasks[g].sups) : SupParentHead(g, i)
  \/ \E g \in 1..Len(tasks) : \E i \in 1..Len(tasks[g].sups) : SupActorState(g, i)
  \/ \E g \in 1..Len(tasks) : \E i \in 1..Len(tasks[g].sups) : SubmitTemplate(g, i)
  \/ \E g \in 1..Len(tasks) : \E i \in 1..Len(tasks[g].sups) : SubmitPrev(g, i)
  \/ \E g \in 1..Len(tasks) : \E i \in 1..Len(tasks[g].sups) : SubmitPush(g, i)
  \/ \E g \in 1..Len(tasks) : \E i \in 1..Len(tasks[g].sups) : SubmitWait(g, i)
  \/ \E g \in 1..Len(tasks) : \E i \in 1..Len(tasks[g].sups) : WaitTimer(g, i)
  \/ \E g \in 1..Len(tasks) : \E i \in 1..Len(tasks[g].sups) : WaitStop(g, i)

Spec == Init /\ [][Next]_vars

\* Chain calls respond successfully: supervisor i of task g takes a step that is
\* neither an error return nor a panic.
SupProgress(g, i) ==
  /\ SupStep(g, i)
  /\ tasks'[g].status = "running"
  /\ tasks'[g].sups[i].pc # "err"

Gens == 1..(MaxPublish + 1)
SupIxs == 1..Len(subnets_to_manage(Configs[2]))

\* The executor runs every task that can run: every pending await of a supervisor
\* completes; chain calls eventually respond successfully; a notified supervisor
\* that keeps waiting takes the notification.
FairSpec ==
  /\ Spec
  /\ WF_vars(RunStep)
  /\ \A g \in Gens : WF_vars(DriverFinish(g))
  /\ \A g \in Gens : \A i \in SupIxs : WF_vars(SupStep(g, i))
  /\ \A g \in Gens : \A i \in SupIxs : WF_vars(SupProgress(g, i))
  /\ \A g \in Gens : \A i \in SupIxs : WF_vars(WaitStop(g, i))

\* ------------------------------------- subnets_to_manage called on any snapshot
InitManage ==
  /\ latest = 1
  /\ chan = 0
  /\ chanFailed = FALSE
  /\ subscribed = FALSE
  /\ published = 0
  /\ shutdownRequested = FALSE
  /\ runPc = "start"
  /\ is_shutdown = FALSE
  /\ runResult = "none"
  /\ tasks = <<>>
  /\ \E D \in SnapshotKeys : probe_in \in SnapshotsOn(D)
  /\ probe_out = <<>>
  /\ probe_done = FALSE
  /\ LoopIdle
  /\ TopDownIdle
  /\ EvmIdle
  /\ ScIdle
  /\ LotusIdle

CallSubnetsToManage ==
  /\ ~probe_done
  /\ probe_out' = subnets_to_manage(probe_in)
  /\ probe_done' = TRUE
  /\ UNCHANGED <<runVars, probe_in, auxVars>>

NextManage == CallSubnetsToManage

SpecManage == InitManage /\ [][NextManage]_vars

\* ------------------------------- one manage_subnet future against its two chains
InitLoop ==
  /\ RunIdle
  /\ ProbeIdle
  /\ TopDownIdle
  /\ EvmIdle
  /\ ScIdle
  /\ LotusIdle
  /\ loop = NewLoop(ThePair)
  /\ \E P \in Periods : \E V \in SUBSET Accounts : chain = NewChain(P, V)
  /\ hist = NewHist

NextLoop ==
  \/ LoopInitHead
  \/ LoopInitState
  \/ LoopChildHead
  \/ LoopGetCheckpoint
  \/ LoopParentHead
  \/ LoopActorState
  \/ LoopTemplate
  \/ LoopPrev
  \/ LoopPush
  \/ LoopWait
  \/ LoopTimer
  \/ LoopNotify
  \/ LoopStop
  \/ ChainAdvance
  \/ \E e \in 0..chain.height : ChainCommit(e)
  \/ \E m \in chain.mpool : ChainInclude(m)
  \/ \E a \in chain.validators : ChainLeave(a)

SpecLoop == InitLoop /\ [][NextLoop]_vars

\* ------ one manage_topdown_checkpoints future, or one submit_topdown_checkpoint call
InitTopDown ==
  /\ RunIdle
  /\ ProbeIdle
  /\ LoopIdle
  /\ EvmIdle
  /\ ScIdle
  /\ LotusIdle
  /\ \E P \in Periods :
       \/ /\ td = NewTopDown(ThePair)
          /\ \E V \in SUBSET Accounts : tdchain = NewTdChain(P, V, 0, <<>>)
       \/ \E i \in 1..Len(ThePair[1].accounts) : \E h \in Heights :
            /\ h >= P
            /\ td = NewSecondOpportunity(ThePair, P, h, i)
            /\ tdchain = [NewTdChain(P, {"x", "y"}, 0, <<>>) EXCEPT !.parent_height = h]
       \/ /\ \E i \in 1..Len(ThePair[1].accounts) : td = NewSubmitTopDown(ThePair, P, 0, i)
          /\ \E a \in 0..MaxApplied : \E ms \in TopDownMsgs(a + 1) :
               \/ tdchain = NewTdChain(P, {"x", "y"}, a, ms)
               \/ \E d \in {0, 1} :
                    tdchain = [NewTdChain(P, {"x", "y"}, a, ms)
                                 EXCEPT !.head_height = @ + 1, !.applied_head = a + d]

NextTopDown ==
  \/ TdInitHead
  \/ TdInitState
  \/ TdParentHead
  \/ TdChildHead
  \/ TdGatewayState
  \/ TdParentHead2
  \/ TdActorState
  \/ TdTimer
  \/ TdNotify
  \/ TdStop
  \/ StdHead
  \/ StdTipset
  \/ StdGatewayState
  \/ StdMsgs
  \/ StdPush
  \/ TdAgainParentHead
  \/ TdAgainChildHead
  \/ TdAgainGatewayState
  \/ ParentAdvance
  \/ ChildExecute
  \/ \E m \in tdchain.mpool : TdInclude(m)

SpecTopDown == InitTopDown /\ [][NextTopDown]_vars

\* Chain calls respond successfully: the future takes a step that is neither an
\* error return nor a panic.
TdProgress == TdStep /\ td'.pc \notin {"err", "panic"}

\* The executor polls the future whenever it can run, and chain calls eventually
\* respond successfully.
FairTopDown == SpecTopDown /\ WF_vars(TdStep) /\ WF_vars(TdProgress)

\* --------------------------------------------------- one submit_checkpoint call
InitSubmit ==
  /\ RunIdle
  /\ ProbeIdle
  /\ LoopIdle
  /\ TopDownIdle
  /\ EvmIdle
  /\ LotusIdle
  /\ \E t \in TipsetCids : \E e \in {10, 20} :
       \E i \in 1..Len(ThePair[1].accounts) :
         sc = NewSubmitCheckpoint(ThePair[1], t, e, ThePair[1].accounts[i])

NextSubmit ==
  \/ ScTemplate
  \/ ScPrev
  \/ ScPush
  \/ ScWait
  \/ ScChildAdvance
  \/ \E m \in sc.mpool : ScInclude(m)

SpecSubmit == InitSubmit /\ [][NextSubmit]_vars

\* ------------------------------------------- calls on the native subnet manager
InitLotus ==
  /\ RunIdle
  /\ ProbeIdle
  /\ LoopIdle
  /\ TopDownIdle
  /\ EvmIdle
  /\ ScIdle
  /\ \E op \in LotusOps : \E id \in SubnetIDs \cup {ROOT} : \E node \in NetworkNames :
       lotus = NewLotusCall(op, id, node)

NextLotus ==
  \/ LotusCheck
  \/ LotusCodeCid
  \/ LotusPush
  \/ LotusWait

SpecLotus == InitLotus /\ [][NextLotus]_vars

\* ------------------------------------------------- calls on the EVM backend
InitEvm ==
  /\ RunIdle
  /\ ProbeIdle
  /\ LoopIdle
  /\ TopDownIdle
  /\ ScIdle
  /\ LotusIdle
  /\ \/ \E a \in EthAddresses : evm = NewEvmCall("ethers_address_to_fil_address", a)
     \/ \E p \in Payloads : evm = NewEvmCall("payload_to_evm_address", p)
     \/ \E id \in EvmSubnetIDs : evm = NewEvmCall("agent_subnet_to_evm_addresses", id)
     \/ \E id \in EvmSubnetIDs : evm = NewEvmCall("last_evm_address", id)
     \/ \E params \in ConstructParamsSet : evm = NewEvmCall("create_subnet", params)
     \/ \E c \in EvmTopDownCheckpoints : evm = NewEvmCall("submit_top_down_checkpoint", c)
     \/ \E c \in EvmBottomUpCheckpoints : evm = NewEvmCall("submit_bottom_up_checkpoint", c)

NextEvm ==
  \/ CallEthersAddressToFil
  \/ CallPayloadToEvm
  \/ CallAgentSubnetToEvm
  \/ CallLastEvm
  \/ CreateSubnetSend
  \/ CreateSubnetReceipt
  \/ EvmSubmitSend
  \/ EvmSubmitPoll
  \/ EvmSubmitReceipt

SpecEvm == InitEvm /\ [][NextEvm]_vars

\* ------------------------------------------------------------------ claims
Range(f) == {f[k] : k \in DOMAIN f}

\* The manageable pairs of a snapshot, stated declaratively.
Managed(m) ==
  {<<e, m[Parent(e.id)]>> :
     e \in {v \in Range(m) : /\ v.accounts # <<>>
                             /\ HasParent(v.id)
                             /\ Parent(v.id) \in DOMAIN m}}

SupsOf(g) == tasks[g].sups
Active(g, i) == Running(g) /\ i \in 1..Len(SupsOf(g)) /\ SupsOf(g)[i].pc \in ActivePcs
Kept(g, i) == i \in 1..Len(tasks'[g].sups)

\* C1: after the shutdown is requested, run eventually returns, whatever the
\* supervisors are doing when the request arrives (chain calls succeeding).
C1_ShutdownLeadsToReturn == shutdownRequested ~> (runPc = "returned")

\* C2: whenever run has returned, no task driving pair supervisors is still running.
C2_NoOrphanOnReturn ==
  runPc = "returned" => \A g \in 1..Len(tasks) : tasks[g].status # "running"

C2_Witness ==
  /\ runPc = "returned"
  /\ runResult = "ok"
  /\ \E g \in 1..Len(tasks) : tasks[g].nspawned = 2

\* C3: the stop notification leaves a supervisor that is inside a submission
\* untouched; a supervisor returns Ok only out of wait_next_iteration, after being
\* notified; when the timer fires first the loop continues with the next chain
\* head; an in-flight submission is left only by the outcome of its inclusion wait.
C3_StopOnlyAtWait ==
  [][\A g \in 1..Len(tasks) : \A i \in 1..Len(SupsOf(g)) :
       LET s == SupsOf(g)[i] IN
       /\ (s.pc \in SubmitPcs /\ ~tasks[g].stop_issued /\ tasks'[g].stop_issued)
            => (Kept(g, i) /\ tasks'[g].sups[i] = s)
       /\ (s.pc \in ActivePcs /\ Kept(g, i) /\ tasks'[g].sups[i].pc = "ok")
            => (s.pc = "wait" /\ s.notified)
       /\ (s.pc = "wait" /\ Kept(g, i) /\ tasks'[g].sups[i].pc \notin {"wait", "ok"})
            => tasks'[g].sups[i].pc = "child_head"
       /\ (s.pc = "waitmsg" /\ Kept(g, i))
            => tasks'[g].sups[i] \in {s, submit_wait(s, TRUE), submit_wait(s, FALSE)}
    ]_vars

C3_Witness ==
  \E g \in 1..Len(tasks) : \E i \in 1..Len(SupsOf(g)) :
     /\ tasks[g].stop_issued
     /\ tasks[g].status = "running"
     /\ SupsOf(g)[i].pc = "waitmsg"

\* C4: once the stop notification of a snapshot has been issued, no pair
\* supervisor of that snapshot starts a new checkpoint submission.
C4_NoNewSubmissionAfterStop ==
  [][\A g \in 1..Len(tasks) : \A i \in 1..Len(SupsOf(g)) :
       (tasks[g].stop_issued /\ Kept(g, i) /\ tasks'[g].sups[i].pc = "tmpl")
         => (SupsOf(g)[i].pc = "tmpl")
    ]_vars

\* C5: when the pair supervisors of a new snapshot exist, every earlier task has
\* been signalled to stop and has completed; supervisors of two snapshots never
\* run at the same time.
C5_OneGenerationAtATime ==
  /\ \A g \in 1..(Len(tasks) - 1) : tasks[g].stop_issued /\ tasks[g].status # "running"
  /\ Cardinality({g \in 1..Len(tasks) : tasks[g].status = "running"}) <= 1

C5_Witness ==
  /\ Len(tasks) >= 2
  /\ tasks[1].nspawned > 0
  /\ \E i \in 1..Len(SupsOf(Cur)) : Active(Cur, i) /\ SupsOf(Cur)[i].pc = "tmpl"

\* C6: once no further config event is published, the subsystem eventually and
\* for good runs the snapshot published last (unless it is shut down, the config
\* channel fails or a pair supervisor panicked).
C6_FollowsLatestConfig ==
  <>[](\/ shutdownRequested
       \/ chanFailed
       \/ \E g \in 1..Len(tasks) : tasks[g].status = "panicked"
       \/ (tasks # <<>> /\ tasks[Cur].cfg = latest /\ runPc = "select"))

\* C7: subnets_to_manage returns exactly the pairs (s, snapshot[s.id.parent()])
\* of the entries s with accounts, a parent and the parent in the snapshot, each
\* exactly once.
C7_ManageableSet ==
  probe_done =>
    /\ Range(probe_out) = Managed(probe_in)
    /\ Len(probe_out) = Cardinality(Managed(probe_in))

C7_Witness ==
  /\ probe_done
  /\ Len(probe_out) >= 1
  /\ \E k \in DOMAIN probe_in :
       probe_in[k].accounts = <<>> /\ HasParent(k) /\ Parent(k) \in DOMAIN probe_in
  /\ \E k \in DOMAIN probe_in :
       probe_in[k].accounts # <<>> /\ HasParent(k) /\ Parent(k) \notin DOMAIN probe_in

\* C8: applying a snapshot spawns exactly one fresh pair supervisor per manageable
\* pair of the snapshot loaded; a snapshot applied before gave the same number,
\* and none of the earlier supervisors is reused.
C8_OneSupervisorPerPair ==
  [][Len(tasks') = Len(tasks) + 1 =>
       LET t == tasks'[Len(tasks')]
           M == Managed(Configs[latest])
       IN /\ t.cfg = latest
          /\ t.nspawned = Cardinality(M)
          /\ Len(t.sups) = Cardinality(M)
          /\ {<<t.sups[i].child, t.sups[i].parent>> : i \in 1..Len(t.sups)} = M
          /\ \A i \in 1..Len(t.sups) : t.sups[i].pc = "init_head" /\ ~t.sups[i].notified
          /\ \A g \in 1..Len(tasks) :
               /\ tasks'[g] = tasks[g]
               /\ tasks[g].cfg = t.cfg => tasks[g].nspawned = t.nspawned
    ]_vars

C8_Witness ==
  /\ Len(tasks) = 2
  /\ tasks[1].cfg = tasks[2].cfg
  /\ tasks[1].nspawned = 2
  /\ tasks[2].nspawned = 2
  /\ tasks[1].sups = <<>>
  /\ Len(tasks[2].sups) = 2

\* C9: a pair supervisor returning an error changes nothing else: the task keeps
\* running, the other supervisors are untouched, and run does not return for it
\* (run returns only when is_shutdown is set or the task panicked); the task ends
\* without a panic only when every one of its supervisors has returned.
C9_ErrorOnlyRecorded ==
  [][/\ \A g \in 1..Len(tasks) :
          (Running(g) /\ tasks'[g].status = "finished")
            => \A j \in 1..Len(SupsOf(g)) : SupsOf(g)[j].pc \in {"ok", "err"}
     /\ \A g \in 1..Len(tasks) : \A i \in 1..Len(SupsOf(g)) :
          (Active(g, i) /\ Kept(g, i) /\ tasks'[g].sups[i].pc = "err")
            => /\ tasks'[g].status = "running"
               /\ Len(tasks'[g].sups) = Len(SupsOf(g))
               /\ \A j \in 1..Len(SupsOf(g)) :
                    j # i => tasks'[g].sups[j] = SupsOf(g)[j]
               /\ runPc' = runPc
               /\ runResult' = runResult
     /\ (runPc # "returned" /\ runPc' = "returned")
          => (is_shutdown \/ tasks[Cur].status = "panicked")
    ]_vars

C9_Witness ==
  \E g \in 1..Len(tasks) : \E i, j \in 1..Len(SupsOf(g)) :
     /\ tasks[g].status = "running"
     /\ runPc = "select"
     /\ SupsOf(g)[i].pc = "err"
     /\ SupsOf(g)[j].pc = "waitmsg"

\* C10: a fatal invariant violation (assert_eq! on a chain head with other than
\* one CID, inside the loop) in one pair supervisor leaves the other pair
\* supervisors of the task running.
C10_FatalAbortsOnlyThatPair ==
  [][\A g \in 1..Len(tasks) :
       (/\ Running(g)
        /\ tasks'[g].status = "panicked"
        /\ \A k \in 1..Len(SupsOf(g)) : SupsOf(g)[k].pc # "init_head")
         => \E i \in 1..Len(SupsOf(g)) : \A j \in 1..Len(SupsOf(g)) :
              (j # i /\ Active(g, j)) => (Kept(g, j) /\ tasks'[g].sups[j] = SupsOf(g)[j])
    ]_vars

\* C11: run returns only when is_shutdown was set by the select! (shutdown request
\* or receive error); after config_chan.recv() returned Ok it does not return.
C11_ReturnsOnlyOnShutdown ==
  [][(runPc # "returned" /\ runPc' = "returned") => is_shutdown]_vars

\* C12: inside the loop of manage_subnet a failing chain call does not end the
\* supervisor: no step takes a supervisor that is past its start-up to Err.
C12_ChainFailureKeepsSupervisor ==
  [][\A g \in 1..Len(tasks) : \A i \in 1..Len(SupsOf(g)) :
       (/\ Active(g, i)
        /\ SupsOf(g)[i].pc \notin {"init_head", "init_state"}
        /\ Kept(g, i))
         => tasks'[g].sups[i].pc # "err"
    ]_vars

\* C13: while a submission is under way for one account and a later account of
\* child.accounts is in the validator set, the supervisor's next step stays in a
\* submission: the current one goes on or the next account's one starts.
C13_FailedAccountDoesNotBlockOthers ==
  [][\A g \in 1..Len(tasks) : \A i \in 1..Len(SupsOf(g)) :
       LET s == SupsOf(g)[i] IN
       (/\ Running(g)
        /\ s.pc \in SubmitPcs
        /\ NextAccount(s, s.vset, s.idx) # 0
        /\ Kept(g, i))
         => tasks'[g].sups[i].pc \in SubmitPcs
    ]_vars

\* ------------------------------------------------ claims on the pair's chains
Account(b) == submit_message(b).from
\* The managed accounts in the validator set as the tick read it.
ManagedValidators(b, h) == Range(b.s.child.accounts) \cap h.vread
LastCommitted(c) ==
  IF c.committed = {} THEN NoEpoch ELSE CHOOSE e \in c.committed : \A f \in c.committed : f <= e
LargestMultipleAtMost(h, P) ==
  CHOOSE e \in 0..h : e % P = 0 /\ \A f \in 0..h : f % P = 0 => f <= e
Pushes == loop.s.pc = "push" /\ loop'.s.pc = "waitmsg"

\* C14: no checkpoint is built or pushed for an account and an epoch while the
\* parent already holds that account's vote for that epoch.
C14_NoSubmissionAfterVote ==
  loop.s.pc \in {"tmpl", "prev", "push"} => <<Account(loop), loop.epoch>> \notin chain.votes

\* C15: a pushed bottom-up checkpoint has an epoch that is a multiple of the period
\* and later than the last epoch committed for the child when it is pushed (no
\* commit having happened since the tick read the child head).
C15_SubmittedEpochWellFormed ==
  [][(Pushes /\ ~hist.raced) =>
       /\ loop.epoch % loop.period = 0
       /\ loop.epoch > LastCommitted(chain)
    ]_vars

\* C16: with no checkpoint committed, a tick that read child height h works on the
\* largest multiple of the period that is at most h (20 at h = 25 and 30 at h = 35
\* for period 10), pushes messages for that epoch, and ends its account loop having
\* pushed one for every managed account of the validator set.
C16_BuildsLatestClosedWindow ==
  [][chain.committed = {} =>
       /\ loop'.s.pc \in InTickPcs =>
            /\ loop'.epoch = LargestMultipleAtMost(loop'.curr_epoch, loop'.period)
            /\ (loop'.period = 10 /\ loop'.curr_epoch = 25) => loop'.epoch = 20
            /\ (loop'.period = 10 /\ loop'.curr_epoch = 35) => loop'.epoch = 30
       /\ Pushes =>
            /\ chain'.mpool \ chain.mpool =
                 {[from |-> Account(loop),
                   epoch |-> LargestMultipleAtMost(loop.curr_epoch, loop.period)]}
            /\ Account(loop) \in ManagedValidators(loop, hist)
       /\ (loop.s.pc \in InTickPcs /\ loop'.s.pc = "wait") =>
            hist'.tick = ManagedValidators(loop, hist')
    ]_vars

C16_Witness ==
  /\ chain.period = 10
  /\ chain.committed = {}
  /\ chain.votes = {<<"x", 20>>, <<"y", 20>>, <<"x", 30>>, <<"y", 30>>}
  /\ chain.height = 35
  /\ loop.s.pc = "wait"
  /\ hist.tick = {"x", "y"}

C18_SerialAndMonotone ==
  [][/\ Cardinality(chain'.mpool) <= 1
     /\ (loop'.s.pc = "tmpl" /\ loop.s.pc # "tmpl") =>
          (loop.s.pc \in {"sa_state", "waitmsg"} /\ chain.mpool = {})
     /\ \A a \in Accounts : hist'.last[a] >= hist.last[a]
    ]_vars

C18_Witness ==
  /\ loop.s.pc = "waitmsg"
  /\ Account(loop) = "y"
  /\ chain.mpool = {[from |-> "y", epoch |-> 30]}
  /\ hist.last["x"] = 30
  /\ <<"x", 15>> \in chain.votes

\* ------------------------------------------------------ claims on the top-down
TdManagedValidators == Range(td.child.accounts) \cap tdchain.validators

\* The parent height has reached the next top-down submission epoch and a managed
\* account is in the validator set (no vote of it is recorded: none was pushed).
TdDue ==
  /\ td.mode = "loop"
  /\ td.pc \in TdLoopPcs
  /\ tdchain.parent_height >= tdchain.last_executed + tdchain.period
  /\ TdManagedValidators # {}
  /\ tdchain.mpool = {}

\* C19: a top-down checkpoint that is due is eventually pushed, unless the child
\* executes it without the managed accounts or the future has ended.
C19_TopDownEventuallySubmitted ==
  TdDue ~> (tdchain.mpool # {} \/ ~TdDue \/ td.pc \in {"ok", "err", "panic"})

\* C20: every top-down message pushed carries the nonces applied + 1, applied + 2,
\* ... without a gap, applied being the applied_topdown_nonce of the child.
C20_ContiguousNonces ==
  \A m \in tdchain.mpool : \A k \in 1..Len(m.top_down_msgs) :
     m.top_down_msgs[k] = tdchain.applied + k

\* C21: a submission reports success only after the inclusion of its message has
\* been confirmed: broadcast, wait for inclusion, return. For the native top-down
\* submission: when submit_topdown_checkpoint returns Ok, the message it pushed is
\* no longer pending in the message pool (the bottom-up order is C18's).
C21_OkOnlyAfterInclusion ==
  [][(td.pc = "s_push" /\ td'.pc \in {"ok", "t_again"})
       => topdown_message(td) \notin tdchain'.mpool]_vars

\* C22: an EVM address converted to a native address by ethers_address_to_fil_address
\* and back by payload_to_evm_address is the same address; and the EVM address of
\* a delegated address with a subaddress of at least 20 bytes is the first 20
\* bytes of the subaddress.
C22_AddressRoundTrip ==
  /\ EvmAt("ethers_address_to_fil_address", "done")
       => /\ evm.res.kind = "Ok"
          /\ payload_to_evm_address(evm.res.val) = Ok(evm.arg)
  /\ (/\ EvmAt("payload_to_evm_address", "done")
      /\ evm.arg.proto = "Delegated"
      /\ Len(evm.arg.subaddress) >= EVM_ADDRESS_LEN)
       => /\ evm.res.kind = "Ok"
          /\ Len(evm.res.val) = EVM_ADDRESS_LEN
          /\ \A i \in 1..EVM_ADDRESS_LEN : evm.res.val[i] = evm.arg.subaddress[i]

\* The address of the tests went through ethers_address_to_fil_address.
C22_Witness ==
  /\ EvmAt("ethers_address_to_fil_address", "done")
  /\ evm.arg = TestEth
  /\ evm.res = Ok(Delegated(EAM_NAMESPACE, TestEth))

\* C23: agent_subnet_to_evm_addresses yields the conversions of the path segments,
\* one per segment and in path order, and an error (no route) when a segment is
\* not a delegated address; last_evm_address yields the conversion of the last
\* segment and an error for a SubnetID without segments.
C23_RouteOfSubnetID ==
  /\ EvmAt("agent_subnet_to_evm_addresses", "done")
       => LET c == evm.arg.children
          IN IF \A i \in 1..Len(c) : c[i].proto = "Delegated"
               THEN /\ evm.res.kind = "Ok"
                    /\ Len(evm.res.val) = Len(c)
                    /\ \A i \in 1..Len(c) : Ok(evm.res.val[i]) = payload_to_evm_address(c[i])
               ELSE evm.res.kind = "Err"
  /\ EvmAt("last_evm_address", "done")
       => LET c == evm.arg.children
          IN IF c = <<>> THEN evm.res.kind = "Err"
             ELSE evm.res = payload_to_evm_address(c[Len(c)])

\* C24: create_subnet on the EVM backend sends no transaction and returns an error
\* when the name is longer than 32 bytes or the gateway address of the parameters
\* differs from the gateway of the manager's configuration; otherwise the name
\* handed to the registry is 32 bytes: the bytes of the name, then zero bytes.
C24_CreateSubnetChecks ==
  (evm.op = "create_subnet" /\ evm.pc \in {"sent", "done"})
    => IF \/ Len(evm.arg.name) > SUBNET_NAME_MAX_LEN
          \/ evm.arg.ipc_gateway_addr # TheManager.gateway_addr
         THEN evm.txs = <<>> /\ evm.pc = "done" /\ evm.res.kind = "Err"
         ELSE \A k \in 1..Len(evm.txs) :
                /\ Len(evm.txs[k].name) = SUBNET_NAME_MAX_LEN
                /\ \A i \in 1..SUBNET_NAME_MAX_LEN :
                     evm.txs[k].name[i] = IF i <= Len(evm.arg.name) THEN evm.arg.name[i] ELSE 0

\* Position of an account in the accounts of the child's config entry.
Declared(b, a) == CHOOSE j \in 1..Len(b.s.child.accounts) : b.s.child.accounts[j] = a

\* C25: in a tick of the bottom-up loop the accounts are visited in the order in
\* which the child's config entry declares them, and the submissions of the tick
\* follow that order: the for loop only moves forward in child.accounts, and a
\* message is pushed only for an account declared after those already pushed for
\* in this tick.
C25_DeclarationOrder ==
  [][/\ (loop.s.pc \in SubmitPcs /\ loop'.s.pc \in SubmitPcs)
          => loop'.s.idx >= loop.s.idx
     /\ Pushes => \A a \in hist.tick : Declared(loop, a) < loop.s.idx]_vars

\* Both accounts got their message pushed in one tick.
C25_Witness ==
  /\ loop.s.pc = "waitmsg"
  /\ hist.tick = {"x", "y"}
  /\ Account(loop) = "y"

\* C26: a message is pushed only on behalf of an account that is listed in the
\* child's configured accounts and is in the validator set that this tick read
\* from the parent's subnet actor state.
C26_OnlyManagedValidators ==
  [][Pushes => /\ Account(loop) \in Range(loop.s.child.accounts)
               /\ Account(loop) \in hist.vread
               /\ hist.vread = loop.s.vset]_vars

\* A message is pushed for y in a tick that read the validator set {y}, x having
\* left the set since the tick before.
C26_Witness ==
  /\ loop.s.pc = "waitmsg"
  /\ Account(loop) = "y"
  /\ hist.vread = {"y"}
  /\ hist.last["x"] # NoEpoch

\* C27: when the tick has read the validator set and none of the child's
\* configured accounts is in it, manage_subnet returns Ok and polls no more.
C27_ExitsWhenNoManagedValidator ==
  [][(/\ loop.s.pc = "sa_state"
      /\ loop'.s.pc \notin {"sa_state", "err", "panic"}
      /\ ManagedValidators(loop, hist') = {})
       => loop'.s.pc = "ok"]_vars

\* C28: a tick attempts a submission only if the parent holds no committed
\* checkpoint of the child for the tick's epoch: when the epoch is committed as the
\* lookup is made, whatever the lookup answers, the supervisor goes to its
\* inter-iteration wait, and no message is pushed for an epoch that was committed
\* before the tick's lookup.
C28_NoSubmissionForCommittedEpoch ==
  [][/\ (loop.s.pc = "get_ckpt" /\ loop'.s.pc # "get_ckpt" /\ loop.epoch \in chain.committed)
          => loop'.s.pc = "wait"
     /\ (Pushes /\ ~hist.raced) => loop.epoch \notin chain.committed]_vars

\* C29: the epoch e the top-down loop selects for submission in a tick is later
\* than last_executed, a multiple of the top-down period, at most the parent's
\* current epoch, and the smallest such epoch; when the current epoch is below
\* last_executed + period the tick selects none and goes to its wait.
C29_TopDownSubmissionEpoch ==
  [][(td.mode = "loop" /\ td.pc = "t_gw_state" /\ td'.pc \notin {"t_gw_state", "err"})
       => IF td.curr_epoch < tdchain.last_executed + td.period
            THEN td'.pc = "t_wait"
            ELSE LET e == td'.submission_epoch
                     Fits(f) == /\ f > tdchain.last_executed
                                /\ f % td.period = 0
                                /\ td.curr_epoch >= f
                 IN /\ td'.pc = "t_parent_head2"
                    /\ Fits(e)
                    /\ \A f \in 0..td.curr_epoch : Fits(f) => e <= f]_vars

\* A tick selected epoch 20 with the parent at 25 and the checkpoint of epoch
\* 10 executed.
C29_Witness ==
  /\ td.mode = "loop"
  /\ td.pc = "t_sa_state"
  /\ td.period = 10
  /\ td.last_exec = 10
  /\ td.curr_epoch = 25
  /\ td.submission_epoch = 20

\* C30: the top-down payload pushed for submission epoch e with prior last_executed
\* is {epoch: e, top_down_msgs}, the messages being those the parent holds with a
\* nonce of at least applied_topdown_nonce + 1, and applied_topdown_nonce being the
\* one of the child's gateway state at the tipset of height last_executed + 2.
C30_TopDownPayload ==
  [][(td.pc = "s_push" /\ td'.pc \notin {"s_push", "err"})
       => \E m \in tdchain'.mpool :
            /\ tdchain'.mpool = tdchain.mpool \cup {m}
            /\ m.epoch = td.submission_epoch
            /\ m.top_down_msgs =
                 ipc_get_topdown_msgs(tdchain, AppliedAt(tdchain, td.last_exec + 2) + 1)]_vars

\* A payload was pushed while the child's head had applied one message more than
\* the tipset of height last_executed + 2, and the parent held that message.
C30_Witness ==
  /\ td.mode = "call"
  /\ td.pc = "ok"
  /\ tdchain.applied_head = tdchain.applied + 1
  /\ tdchain.head_height > 2
  /\ \E m \in tdchain.mpool :
       /\ Len(m.top_down_msgs) = MaxMsgs
       /\ m.top_down_msgs[1] = tdchain.applied + 1

\* C31: the top-down checkpoint message is delivered to the child chain: every
\* message submit_topdown_checkpoint pushes is addressed to the gateway actor and
\* is pushed through the child's client, not through the parent's.
C31_PushedThroughChildClient ==
  \A m \in tdchain.mpool : m.to = "gateway" /\ m.client = "child"

C33_BottomUpPayload ==
  [][(sc.pc = "push" /\ sc'.pc = "waitmsg")
       => \E m \in sc'.mpool :
            /\ sc'.mpool = sc.mpool \cup {m}
            /\ m.from = sc.account
            /\ m.checkpoint.source = sc.child.id
            /\ m.checkpoint.epoch = sc.epoch
            /\ m.checkpoint.children = sc.template.children
            /\ m.checkpoint.cross_msgs = sc.template.cross_msgs
            /\ m.checkpoint.prev_check =
                 (IF sc.response.some THEN sc.response.cid ELSE DefaultCid)
            /\ m.checkpoint.proof = to_bytes(sc.child_tip_set)]_vars

\* A checkpoint with a child, a cross message and a previous checkpoint was pushed
\* after the child chain had moved on from the tipset of the tick.
C33_Witness ==
  /\ sc.pc = "waitmsg"
  /\ sc.head # sc.child_tip_set
  /\ \E m \in sc.mpool :
       /\ m.checkpoint.prev_check = PrevCid
       /\ Len(m.checkpoint.children) > 0
       /\ Len(m.checkpoint.cross_msgs) > 0
       /\ m.checkpoint.epoch = 20

\* C34: every bottom-up checkpoint that is submitted has been validated: no two
\* entries of its children have the same source SubnetID, and its cross_msgs are
\* in ascending nonce order without a gap.
C34_SubmittedCheckpointValid ==
  \A m \in sc.mpool :
     LET ch == m.checkpoint.children
         cm == m.checkpoint.cross_msgs
     IN /\ \A j, k \in 1..Len(ch) : ch[j] = ch[k] => j = k
        /\ \A k \in 1..(Len(cm) - 1) : cm[k + 1] = cm[k] + 1

\* C35: submit_checkpoint pushes a message to the parent's pool only after the
\* checkpoint template (from the child) and then the previous-checkpoint lookup
\* (from the parent) have succeeded; when either fails the call returns the error
\* and nothing has been pushed for its (account, epoch).
C35_PushOnlyAfterBothLookups ==
  [][/\ sc'.mpool \ sc.mpool # {}
          => sc.done = <<"ipc_get_checkpoint_template", "ipc_get_prev_checkpoint_for_child">>
     /\ (sc.pc \in {"tmpl", "prev"} /\ sc'.pc \notin {"tmpl", "prev", "push"})
          => /\ sc'.pc = "err"
             /\ \A m \in sc'.mpool :
                   m.from # sc.account \/ m.checkpoint.epoch # sc.epoch]_vars

\* The template was returned, the previous-checkpoint lookup failed and the call
\* ended with the error.
C35_Witness ==
  /\ sc.pc = "err"
  /\ sc.done = <<"ipc_get_checkpoint_template">>
  /\ sc.mpool = {}

\* C36: an EVM submission (submit_top_down_checkpoint, submit_bottom_up_checkpoint)
\* returns as its epoch the block number of the transaction receipt; when no
\* receipt is obtained within the retry budget, or the receipt carries no block
\* number, it returns an error and never an epoch, although the transaction was
\* already sent.
C36_EpochFromReceipt ==
  (evm.op \in SubmitOps /\ evm.pc = "done" /\ evm.receipt.kind # "Unknown")
    => /\ Len(evm.txs) = 1
       /\ IF evm.receipt.kind = "Some" /\ evm.receipt.val.block_number.some
            THEN evm.res.kind = "Ok" /\ evm.res.val = evm.receipt.val.block_number.n
            ELSE evm.res.kind = "Err"

\* A bottom-up submission whose transaction was sent, whose receipt was missing
\* at every poll of the budget, and which returned the error.
C36_Witness ==
  /\ evm.op = "submit_bottom_up_checkpoint"
  /\ evm.pc = "done"
  /\ evm.polls = TRANSACTION_RECEIPT_RETRIES
  /\ evm.receipt.kind = "None"
  /\ Len(evm.txs) = 1
  /\ evm.res.kind = "Err"

\* ---------------------------------------------------- claims on chain heads
\* C37: every chain head a pair supervisor turns into a tipset CID has first been
\* checked to hold exactly one CID, at start-up as well as inside the loop: after
\* a head was received the supervisor goes on with its first CID only if it is
\* the only one, and has ended with the fatal invariant violation otherwise.
C37_SingleCidAlwaysChecked ==
  hist.cids # NoEpoch
    => IF hist.cids = 1 THEN loop.s.pc # "panic" ELSE loop.s.pc = "panic"

\* ------------------------------------- claims on the native subnet manager
\* C38: create_subnet, join_subnet, leave_subnet and kill_subnet of the native
\* manager fail with the wrong-parent-network error, pushing no message, exactly
\* when the network name of the target SubnetID differs from the name the node
\* reported; when the names match the operation goes on to push its message.
C38_WrongNetworkRejected ==
  (lotus.op \in LotusOps /\ lotus.pc = "done" /\ lotus.name # <<>>)
    => IF SubnetID_to_string(lotus.arg) # lotus.name
         THEN lotus.res = WrongNetwork /\ lotus.pushed = <<>>
         ELSE lotus.res # WrongNetwork

\* C39: native-to-EVM address conversion never aborts: payload_to_evm_address
\* returns an error value for every address that is not convertible (a class
\* other than delegated, or a delegated subaddress shorter than 20 bytes), and
\* the EVM submit_bottom_up_checkpoint returns an error for a checkpoint whose
\* source route is empty.
C39_ConversionNeverAborts ==
  /\ EvmAt("payload_to_evm_address", "done")
       => IF evm.arg.proto # "Delegated" \/ Len(evm.arg.subaddress) < EVM_ADDRESS_LEN
            THEN evm.res.kind = "Err"
            ELSE evm.res.kind = "Ok"
  /\ (EvmAt("submit_bottom_up_checkpoint", "done") /\ Len(evm.arg.source.route) = 0)
       => evm.res.kind = "Err"
====
